---- MODULE Spec2Model ----
(***************************************************************************)
(* A model of dycode's dynamic resolution engine: the Path Resolver        *)
(* (get_value.py), the Code Descriptor Evaluator (functions.py) and the    *)
(* Unified Evaluator (core/evaluate.py), and of the class wrappers built   *)
(* on them: dynamic fields and composites (wrappers/field_wrapper.py),     *)
(* dynamic methods (wrappers/method_wrapper.py) and strict inheritance     *)
(* (wrappers/utils.py).                                                    *)
(*                                                                         *)
(* Texts (symbol paths and code) are sequences of tokens: an identifier,   *)
(* the dot ".", or one of the keywords "lambda", "def", ":".  Python       *)
(* values are records [kind, ref, scope] of one shape.                     *)
(***************************************************************************)
EXTENDS Integers, Sequences, FiniteSets, TLC

\* ------------------------------------------------------------------ bounds
MaxSegments == 3   \* longest symbol path handed to the resolver, in segments
MaxTrys == 2       \* largest retry budget handed to get_value
MaxSteps == 4      \* class statements and constructor calls of a client program

\* --------------------------------------------------------------- text tokens
Ident == {"p", "q", "v"}
Dot == "."

\* str.split("."): always at least one segment, empty segments are kept
RECURSIVE Split(_)
Split(s) ==
  IF \A i \in 1..Len(s) : s[i] # Dot
  THEN <<s>>
  ELSE LET i == CHOOSE k \in 1..Len(s) : s[k] = Dot /\ \A j \in 1..(k-1) : s[j] # Dot
       IN <<SubSeq(s, 1, i - 1)>> \o Split(SubSeq(s, i + 1, Len(s)))

\* ".".join(segments): the empty list joins to the empty text
RECURSIVE Join(_)
Join(segs) ==
  IF Len(segs) = 0 THEN <<>>
  ELSE IF Len(segs) = 1 THEN segs[1]
  ELSE segs[1] \o <<Dot>> \o Join(Tail(segs))

\* The({ e : x \in { d } }) is e with x bound to the value of d, which is
\* computed once however often e reads x
The(S) == CHOOSE x \in S : TRUE

\* ------------------------------------------------------------------- values
NoneVal == [kind |-> "none", ref |-> <<>>, scope |-> <<>>]
IntVal(n) == [kind |-> "int", ref |-> <<n>>, scope |-> <<>>]
ModuleVal(name) == [kind |-> "module", ref |-> name, scope |-> <<>>]
DictVal(items) == [kind |-> "dict", ref |-> <<>>, scope |-> items]
ObjectVal(attrs) == [kind |-> "object", ref |-> <<>>, scope |-> attrs]
FunctionVal(body, globs) == [kind |-> "function", ref |-> body, scope |-> globs]
ListVal(items) == [kind |-> "list", ref |-> <<>>, scope |-> items]

\* the singleton of core/types.py that marks "no value yet"
_NoValue == [kind |-> "novalue", ref |-> <<>>, scope |-> <<>>]

\* ------------------------------------------------- the ambient namespace
\* Modules the host's standard import finds: package p whose __init__ runs
\* "from .v import v", with the submodules p.q and p.v.
Installed == { <<"p">>, <<"p", ".", "q">>, <<"p", ".", "v">> }

\* what executing a package's __init__ imports on the way
InitImports(name) == IF name = <<"p">> THEN { <<"p", ".", "v">> } ELSE {}

\* Source files under the working directory (not on the import path):
\* q/__init__.py and q/v.py, as lists of path components.  Nothing named v
\* can be loaded at the top level.
CwdUnits == { <<"q", "v">> }
CwdPackages == { <<"q">> }

\* the attributes a module's body defines
StaticAttrs(name) ==
  IF name = <<"p">> THEN [x \in {"v"} |-> IntVal("1")]
  ELSE IF name = <<"p", ".", "v">> THEN [x \in {"v"} |-> IntVal("1")]
  ELSE IF name = <<"p", ".", "q">> THEN [x \in {"v", "p"} |-> IF x = "v" THEN IntVal("2") ELSE IntVal("3")]
  ELSE IF name = <<"q">> THEN [x \in {"p"} |-> IntVal("5")]
  ELSE IF name = <<"q", ".", "v">> THEN [x \in {"v"} |-> IntVal("6")]
  ELSE <<>>

\* An imported submodule is bound as an attribute of its parent package,
\* unless the package body rebinds that name.
ModuleAttrs(name, sm) ==
  LET static == StaticAttrs(name)
      subs == { x \in Ident : (name \o <<Dot, x>>) \in sm /\ name \in Installed }
  IN [x \in (DOMAIN static) \cup subs |->
        IF x \in DOMAIN static THEN static[x] ELSE ModuleVal(name \o <<Dot, x>>)]

\* hasattr / getattr on a value
Attrs(var, sm) ==
  IF var.kind = "module" THEN ModuleAttrs(var.ref, sm)
  ELSE IF var.kind = "object" THEN var.scope
  ELSE <<>>

\* a segment names a key or attribute only when it is one identifier
HasName(map, seg) == Len(seg) = 1 /\ seg[1] \in DOMAIN map

\* ----------------------------------------------------------------- importer
\* get_value.py imports only "importlib"; its fallback loader reads
\* importlib.util, which exists once some module of the process has imported
\* it.  The processes modelled here have.
importlib_util == TRUE

IsIdentSeg(seg) == Len(seg) = 1 /\ seg[1] \in Ident

\* the longest run of leading prefixes of segs the standard import finds
RECURSIVE ImportedPrefixes(_, _)
ImportedPrefixes(segs, k) ==
  IF k < Len(segs) /\ (\A i \in 1..(k+1) : IsIdentSeg(segs[i]))
       /\ Join(SubSeq(segs, 1, k + 1)) \in Installed
  THEN ImportedPrefixes(segs, k + 1)
  ELSE k

\* __import__(name): imports every package on the way, returns the TOP-LEVEL
\* package; what was imported before a failure stays imported.
StdImport(name, sm) ==
  LET imported(segs, k, done) ==
        [ok |-> k = Len(segs),
         module |-> IF k = Len(segs) THEN ModuleVal(segs[1]) ELSE NoneVal,
         sm |-> sm \cup done \cup UNION { InitImports(m) : m \in done }]
  IN The({ imported(segs, k, { Join(SubSeq(segs, 1, i)) : i \in 1..k }) :
             segs \in { Split(name) }, k \in { ImportedPrefixes(Split(name), 0) } })

\* utils.is_module / utils.is_package on the route steps of a name;
\* os.path.join drops empty components
Components(steps) == SelectSeq(steps, LAMBDA s : s # <<>>)
Flat(steps) == [i \in 1..Len(steps) |-> IF Len(steps[i]) = 1 THEN steps[i][1] ELSE "?"]
RouteSteps(name) ==
  LET steps == Split(name) IN IF steps[1] = <<>> THEN Tail(steps) ELSE steps
is_module(name) ==
  LET steps == RouteSteps(name)
  IN steps[Len(steps)] # <<>> /\ Flat(Components(steps)) \in CwdUnits
is_package(name) ==
  Flat(Components(RouteSteps(name))) \in CwdPackages

importer(name, sm, util) ==
  LET fallback(std, steps) ==
        IF std.ok THEN std
        ELSE IF steps = <<>> THEN [ok |-> FALSE, module |-> NoneVal, sm |-> std.sm]
        ELSE IF ~(is_module(name) \/ is_package(name)) THEN [ok |-> FALSE, module |-> NoneVal, sm |-> std.sm]
        ELSE IF ~util THEN [ok |-> FALSE, module |-> NoneVal, sm |-> std.sm]
        ELSE [ok |-> TRUE, module |-> ModuleVal(Join(Components(steps))), sm |-> std.sm]
  IN The({ fallback(std, steps) : std \in { StdImport(name, sm) }, steps \in { RouteSteps(name) } })

\* -------------------------------------------------------------- descriptors
\* What a caller hands over as "name", "expression" or "function descriptor":
\* a text, a record {code, context?, function_of_interest?}, or any other value.
NoSelector == "None"
TextDesc(t) == [form |-> "text", code |-> t, context |-> _NoValue, foi |-> NoSelector, value |-> _NoValue]
RecordDesc(t, ctx, sel) == [form |-> "record", code |-> t, context |-> ctx, foi |-> sel, value |-> _NoValue]
ValueDesc(v) == [form |-> "value", code |-> <<>>, context |-> _NoValue, foi |-> NoSelector, value |-> v]

\* ------------------------------------------------------------ Path Resolver
Raise(e, sm) == [ok |-> FALSE, val |-> _NoValue, err |-> e, sm |-> sm]
Return(v, sm) == [ok |-> TRUE, val |-> v, err |-> "", sm |-> sm]

\* range(1, n + 1 - level) upwards, range(n - level, -1, -1) downwards
Trials(n, upwards, level) ==
  IF upwards
  THEN [i \in 1..(IF n - level > 0 THEN n - level ELSE 0) |-> i]
  ELSE [i \in 1..(IF n - level + 1 > 0 THEN n - level + 1 ELSE 0) |-> n - level + 1 - i]

RECURSIVE TryImports(_, _, _, _, _)
TryImports(hierarchy, trials, i, sm, util) ==
  LET tried(r) ==
        IF r.ok \/ i = Len(trials)
        THEN [module |-> r.module, trial_index |-> trials[i], sm |-> r.sm]
        ELSE TryImports(hierarchy, trials, i + 1, r.sm, util)
  IN The({ tried(r) : r \in { importer(Join(SubSeq(hierarchy, 1, trials[i])), sm, util) } })

\* returns the imported module (None when nothing loads), the rest of the
\* name after the last prefix tried, and whether the loop ran at all
greedy_import_context(name, upwards, level, sm, util) ==
  LET loaded(module_hierarchy, t) ==
        [bound |-> TRUE, module |-> t.module, sm |-> t.sm,
         name |-> Join(SubSeq(module_hierarchy, t.trial_index + 1, Len(module_hierarchy)))]
      loop(module_hierarchy, trials) ==
        IF Len(trials) = 0
        THEN [bound |-> FALSE, module |-> NoneVal, name |-> <<>>, sm |-> sm]
        ELSE The({ loaded(module_hierarchy, t) :
                     t \in { TryImports(module_hierarchy, trials, 1, sm, util) } })
  IN The({ loop(module_hierarchy, Trials(Len(module_hierarchy), upwards, level)) :
             module_hierarchy \in { Split(name) } })

\* the segment loop of __get_value
RECURSIVE Walk(_, _, _, _, _)
Walk(var, splits, i, strict, sm) ==
  IF i > Len(splits) THEN Return(var, sm)
  ELSE IF var.kind = "dict"
       THEN IF ~HasName(var.scope, splits[i])
            THEN IF strict THEN Raise("KeyError", sm) ELSE Return(NoneVal, sm)
            ELSE Walk(var.scope[splits[i][1]], splits, i + 1, strict, sm)
       ELSE IF ~HasName(Attrs(var, sm), splits[i])
            THEN IF strict THEN Raise("AttributeError", sm) ELSE Return(NoneVal, sm)
            ELSE Walk(Attrs(var, sm)[splits[i][1]], splits, i + 1, strict, sm)

\* __get_value; a name that is not a text has no split() and raises
__get_value(name, strict, upwards, context, sm, util) ==
  IF name.form # "text" THEN Raise("AttributeError", sm)
  ELSE LET walk(g) ==
             Walk(g.module, IF g.name = <<>> THEN <<>> ELSE Split(g.name), 1, strict, g.sm)
       IN The({ walk(g) :
                  g \in { IF context = NoneVal
                          THEN greedy_import_context(name.code, upwards, 0, sm, util)
                          ELSE [bound |-> TRUE, module |-> context, name |-> name.code, sm |-> sm] } })

inspect_ismodule(v) == v.kind = "module"

Reconcile_downwards(up, down, prefer_modules, strict) ==
  LET results == (IF up.ok THEN <<up.val>> ELSE <<>>) \o (IF down.ok THEN <<down.val>> ELSE <<>>)
  IN IF Len(results) = 0 THEN Raise("ImportError", down.sm)
     ELSE IF Len(results) = 1 THEN Return(results[1], down.sm)
     ELSE IF ~strict /\ results[1] = NoneVal /\ results[2] # NoneVal THEN Return(results[2], down.sm)
     ELSE IF ~strict /\ results[1] # NoneVal /\ results[2] = NoneVal THEN Return(results[1], down.sm)
     ELSE IF prefer_modules
          THEN Return(IF inspect_ismodule(results[2]) THEN results[2] ELSE results[1], down.sm)
          ELSE Return(results[2], down.sm)

\* the reconciliation of _get_value, given the outcome of each direction
Reconcile(up, down, prefer_modules, strict) ==
  LET results == (IF up.ok THEN <<up.val>> ELSE <<>>) \o (IF down.ok THEN <<down.val>> ELSE <<>>)
  IN IF Len(results) = 0 THEN Raise("ImportError", down.sm)
     ELSE IF Len(results) = 1 THEN Return(results[1], down.sm)
     ELSE IF ~strict /\ results[1] = NoneVal /\ results[2] # NoneVal THEN Return(results[2], down.sm)
     ELSE IF ~strict /\ results[1] # NoneVal /\ results[2] = NoneVal THEN Return(results[1], down.sm)
     ELSE IF prefer_modules
          THEN Return(IF inspect_ismodule(results[2]) THEN results[2] ELSE results[1], down.sm)
          ELSE Return(results[1], down.sm)

\* one call of _get_value: upwards first, then downwards, then reconcile
_get_value(name, prefer_modules, strict, context, sm, util) ==
  LET reconciled(up, down, r) ==
        [ok |-> r.ok, val |-> r.val, err |-> r.err, sm |-> r.sm,
         up |-> [ok |-> up.ok, val |-> up.val, err |-> up.err],
         down |-> [ok |-> down.ok, val |-> down.val, err |-> down.err]]
      downwards(up) ==
        The({ reconciled(up, down, Reconcile(up, down, prefer_modules, strict)) :
                down \in { __get_value(name, strict, FALSE, context, up.sm, util) } })
  IN The({ downwards(up) : up \in { __get_value(name, strict, TRUE, context, sm, util) } })

\* ------------------------------------------------ the text-execution facility
\* A text is a valid single expression when it is a dotted name ("p.v") or
\* "lambda" followed by a dotted name ("lambda: p.v"); a valid code block is
\* a (possibly empty) run of  def f: <dotted name>  ("def f(): return p.v").
IsDotted(t) == t # <<>> /\ \A i \in 1..Len(Split(t)) : IsIdentSeg(Split(t)[i])
IsLambda(t) == Len(t) >= 2 /\ t[1] = "lambda" /\ IsDotted(Tail(t))

Update(a, b) ==
  IF DOMAIN a = {} /\ DOMAIN b = {} THEN <<>>
  ELSE [k \in (DOMAIN a) \cup (DOMAIN b) |-> IF k \in DOMAIN b THEN b[k] ELSE a[k]]

Builtins == [k \in {"__builtins__"} |-> ModuleVal(<<"builtins">>)]

\* evaluating a dotted name: the first identifier is read from the globals,
\* every further one is an attribute access
RECURSIVE GetAttrs(_, _, _, _)
GetAttrs(var, segs, i, sm) ==
  IF i > Len(segs) THEN [ok |-> TRUE, val |-> var, err |-> ""]
  ELSE IF ~HasName(Attrs(var, sm), segs[i]) THEN [ok |-> FALSE, val |-> _NoValue, err |-> "AttributeError"]
  ELSE GetAttrs(Attrs(var, sm)[segs[i][1]], segs, i + 1, sm)

EvalName(t, globs, sm) ==
  LET segs == Split(t)
  IN IF ~HasName(globs, segs[1]) THEN [ok |-> FALSE, val |-> _NoValue, err |-> "NameError"]
     ELSE GetAttrs(globs[segs[1][1]], segs, 2, sm)

\* the host's eval(text, globals)
PyEval(t, globs, sm) ==
  IF IsDotted(t) THEN EvalName(t, globs, sm)
  ELSE IF IsLambda(t) THEN [ok |-> TRUE, val |-> FunctionVal(Tail(t), globs), err |-> ""]
  ELSE [ok |-> FALSE, val |-> _NoValue, err |-> "SyntaxError"]

\* the host's exec(text, {}, namespace): the bodies of the functions defined
RECURSIVE ParseBlock(_)
ParseBlock(t) ==
  IF t = <<>> THEN [ok |-> TRUE, defs |-> <<>>]
  ELSE IF ~(Len(t) >= 4 /\ t[1] = "def" /\ t[2] \in Ident /\ t[3] = ":")
       THEN [ok |-> FALSE, defs |-> <<>>]
  ELSE LET ends == { k \in 4..Len(t) : k = Len(t) \/ t[k + 1] = "def" }
           e == CHOOSE k \in ends : \A j \in ends : k <= j
           body == SubSeq(t, 4, e)
           rest == ParseBlock(SubSeq(t, e + 1, Len(t)))
       IN IF ~IsDotted(body) \/ ~rest.ok THEN [ok |-> FALSE, defs |-> <<>>]
          ELSE [ok |-> TRUE,
                defs |-> [f \in {t[2]} \cup DOMAIN rest.defs |->
                            IF f \in DOMAIN rest.defs THEN rest.defs[f] ELSE body]]

\* calling a function value: its body is evaluated in its own globals
callable(v) == v.kind \in {"function", "wrapper"}
CallFunction(f, sm) == EvalName(f.ref, f.scope, sm)

\* "def f(p, q): return <body>" as a value: the names of inspect.signature
DefVal(params, body, globs) ==
  [kind |-> "function", ref |-> body, scope |-> globs, params |-> params]
Parameters(function) == IF "params" \in DOMAIN function THEN function.params ELSE <<>>

\* function(*args, **kwargs): positional arguments are bound in order,
\* keywords by name; an argument too many, a name bound twice, a keyword
\* that is no parameter and a parameter left unbound are TypeErrors
Call(function, args, kwargs, sm) ==
  LET params == Parameters(function)
      named == { params[i] : i \in DOMAIN params }
      positional == { params[i] : i \in 1..(IF Len(args) < Len(params) THEN Len(args) ELSE Len(params)) }
      locals == [x \in named |->
                   IF x \in DOMAIN kwargs THEN kwargs[x]
                   ELSE args[CHOOSE i \in DOMAIN params : params[i] = x]]
  IN IF \/ Len(args) > Len(params)
        \/ \E x \in DOMAIN kwargs : x \notin named \/ x \in positional
        \/ \E x \in named : x \notin positional /\ x \notin DOMAIN kwargs
     THEN [ok |-> FALSE, val |-> _NoValue, err |-> "TypeError"]
     ELSE EvalName(function.ref, Update(function.scope, locals), sm)

CallKwargs_all(params, kwargs) == kwargs

\* "{name: kwargs[name] for name in params if name in kwargs}"
CallKwargs(params, kwargs) ==
  LET kept == { params[i] : i \in DOMAIN params } \cap DOMAIN kwargs
  IN Update(<<>>, [name \in kept |-> kwargs[name]])

\* ------------------------------------------------ Code Descriptor Evaluator
dynamic_args_wrapper(function) ==
  IF callable(function)
  THEN [ok |-> TRUE, val |-> [function EXCEPT !.kind = "wrapper"], err |-> ""]
  ELSE [ok |-> FALSE, val |-> _NoValue, err |-> "TypeError"]

\* generate_function: the block runs in a fresh namespace; the function
\* returned has that namespace as its globals
generate_function(code_block, function) ==
  LET executed(b) ==
        IF ~b.ok THEN [ok |-> FALSE, val |-> _NoValue, err |-> "SyntaxError"]
        ELSE IF function \notin DOMAIN b.defs THEN [ok |-> FALSE, val |-> _NoValue, err |-> "KeyError"]
        ELSE [ok |-> TRUE, err |-> "",
              val |-> FunctionVal(b.defs[function],
                        [g \in DOMAIN b.defs |-> FunctionVal(b.defs[g], <<>>)])]
  IN executed(ParseBlock(code_block))

\* "context or dict()"
Falsy(v) == v = NoneVal \/ (v.kind = "dict" /\ DOMAIN v.scope = {})

\* the dictionary the expression is evaluated in (functions.py:145-154)
EvalContext(function_descriptor, context, registry) ==
  LET base == IF Falsy(context) THEN <<>> ELSE context.scope
      withRegistry == Update(base, registry)
  IN IF function_descriptor.form = "record" /\ function_descriptor.context # _NoValue
     THEN Update(withRegistry, function_descriptor.context.scope)
     ELSE withRegistry

\* the function of the block that is returned (functions.py:164-166)
SelectedFunction(function_descriptor, function_of_interest) ==
  IF function_descriptor.form = "record" /\ function_descriptor.foi # NoSelector
  THEN function_descriptor.foi
  ELSE function_of_interest

Outcome(branch, r, merged, after) ==
  [ok |-> r.ok, val |-> r.val, err |-> r.err, branch |-> branch, merged |-> merged, context |-> after]

Wrapped(dynamic_args, o) ==
  IF ~o.ok \/ ~dynamic_args THEN o
  ELSE LET w == dynamic_args_wrapper(o.val)
       IN [o EXCEPT !.ok = w.ok, !.val = w.val, !.err = w.err]

SwitchesToBlock_any(e) == ~e.ok

\* "except SyntaxError": the failure that sends a text to the code-block path
SwitchesToBlock(e) == ~e.ok /\ e.err = "SyntaxError"

\* eval_function; "context" of the outcome is the caller's context object
\* as the call leaves it, "merged" the dictionary the text was evaluated in
eval_function(function_descriptor, function_of_interest, context, dynamic_args, registry, sm) ==
  IF function_descriptor.form = "value"
  THEN Wrapped(dynamic_args,
         Outcome("passthrough", [ok |-> TRUE, val |-> function_descriptor.value, err |-> ""], <<>>, context))
  ELSE IF ~Falsy(context) /\ context.kind # "dict"
  THEN Outcome("expression", [ok |-> FALSE, val |-> _NoValue, err |-> "AttributeError"], <<>>, context)
  ELSE
    LET evaluated(merged, after, e) ==
          IF ~SwitchesToBlock(e)
          THEN Wrapped(dynamic_args, Outcome("expression", e, merged, after))
          ELSE IF function_of_interest = NoSelector
                  /\ ~(function_descriptor.form = "record" /\ function_descriptor.foi # NoSelector)
          THEN Outcome("block", [ok |-> FALSE, val |-> _NoValue, err |-> "AssertionError"], merged, after)
          ELSE Wrapped(dynamic_args,
                 Outcome("block",
                         generate_function(function_descriptor.code,
                                           SelectedFunction(function_descriptor, function_of_interest)),
                         merged, after))
        in(merged) ==
          evaluated(merged, IF Falsy(context) THEN context ELSE DictVal(merged),
                    PyEval(function_descriptor.code, merged, sm))
    IN in(Update(EvalContext(function_descriptor, context, registry), Builtins))

\* ---------------------------------------------------------- Unified Evaluator
EvalResult_propagates(value, function_value, strict, dynamic_args) ==
  IF value.ok
  THEN IF callable(value.val) /\ dynamic_args
       THEN [status |-> "return", val |-> dynamic_args_wrapper(value.val).val, err |-> "",
             value_error |-> "", function_error |-> ""]
       ELSE [status |-> "return", val |-> value.val, err |-> "", value_error |-> "", function_error |-> ""]
  ELSE IF function_value.ok
  THEN [status |-> "return", val |-> function_value.val, err |-> "", value_error |-> "", function_error |-> ""]
  ELSE [status |-> "raise", val |-> _NoValue, err |-> function_value.err,
        value_error |-> "", function_error |-> ""]

\* the tail of eval (evaluate.py:52-65), given the two captured outcomes
EvalResult(value, function_value, strict, dynamic_args) ==
  IF value.ok
  THEN IF callable(value.val) /\ dynamic_args
       THEN [status |-> "return", val |-> dynamic_args_wrapper(value.val).val, err |-> "",
             value_error |-> "", function_error |-> ""]
       ELSE [status |-> "return", val |-> value.val, err |-> "", value_error |-> "", function_error |-> ""]
  ELSE IF function_value.ok
  THEN [status |-> "return", val |-> function_value.val, err |-> "", value_error |-> "", function_error |-> ""]
  ELSE IF strict
  THEN [status |-> "raise", val |-> _NoValue, err |-> "ValueError",
        value_error |-> value.err, function_error |-> function_value.err]
  ELSE [status |-> "return", val |-> NoneVal, err |-> "", value_error |-> "", function_error |-> ""]

\* ------------------------------------------------------------------- inputs
\* symbol paths: every dotted name of up to MaxSegments identifiers
RECURSIVE DottedNames(_)
DottedNames(n) ==
  IF n = 1 THEN { <<x>> : x \in Ident }
  ELSE DottedNames(n - 1) \cup { d \o <<Dot, x>> : d \in DottedNames(n - 1), x \in Ident }
Names == DottedNames(MaxSegments)

Bodies == { <<"v">>, <<"q">> }
LambdaTexts == { <<"lambda">> \o b : b \in Bodies }
DefText(f, b) == <<"def", f, ":">> \o b
BlockTexts == { DefText("p", b) : b \in Bodies }
                \cup { DefText("p", b) \o DefText("q", <<"v">>) : b \in Bodies }
BadTexts == { <<"lambda", ":">> }
CodeTexts == LambdaTexts \cup BlockTexts \cup BadTexts \cup { <<>> }

Obj == ObjectVal([k \in {"v"} |-> IntVal("9")])
\* the contexts callers pass: None, {}, {"p": <function>},
\* {"v": 8, "q": <object>, "p": {"v": 7}} and an object with the attribute v
Contexts == { NoneVal,
              DictVal(<<>>),
              DictVal([k \in {"p"} |-> FunctionVal(<<"v">>, <<>>)]),
              DictVal([k \in {"v", "q", "p"} |->
                         IF k = "v" THEN IntVal("8")
                         ELSE IF k = "q" THEN Obj
                         ELSE DictVal([j \in {"v"} |-> IntVal("7")])]),
              Obj }

Selectors == { NoSelector, "p", "q" }
RecordContexts == { _NoValue, DictVal([k \in {"v"} |-> IntVal("5")]) }
RecordDescs == { RecordDesc(t, c, f) :
                   t \in { <<"v">> } \cup BlockTexts \cup BadTexts,
                   c \in RecordContexts, f \in Selectors }
ValueDescs == { ValueDesc(IntVal("1")), ValueDesc(FunctionVal(<<"v">>, <<>>)) }
ExprNames == { <<"v">>, <<"p">>, <<"q", ".", "v">>, <<"p", ".", "v">> }
Descriptors == { TextDesc(t) : t \in ExprNames \cup CodeTexts } \cup RecordDescs \cup ValueDescs
Expressions == { TextDesc(t) : t \in ExprNames \cup CodeTexts }
                 \cup { RecordDesc(DefText("p", <<"v">>), _NoValue, "p") }

RegNames == { "v" }
RegContexts == { IntVal("1"), DictVal([k \in {"v"} |-> IntVal("2")]) }
\* a module the caller has loaded and registers under its own name
RegModules == { ModuleVal(<<"p">>) }

\* texts as values, classes and the types of values
StrVal(t) == [kind |-> "str", ref |-> t, scope |-> <<>>]
ClassVal(name) == [kind |-> "class", ref |-> <<name>>, scope |-> <<>>]
TypeVal(kind) == [kind |-> "type", ref |-> <<kind>>, scope |-> <<>>]

\* the namespace of the module the classes are defined in: v = 8, the class
\* P as p, an object q with the class Q as q.v and 7 as q.p, and the
\* __builtins__ every module namespace has
ModuleGlobals ==
  Update([k \in {"v", "p", "q"} |->
            IF k = "v" THEN IntVal("8")
            ELSE IF k = "p" THEN ClassVal("P")
            ELSE ObjectVal([j \in {"v", "p"} |-> IF j = "v" THEN ClassVal("Q") ELSE IntVal("7")])],
         Builtins)

\* the default retry budget of get_value
DefaultTrys == 3

\* -------------------------------------------------------------------- state
VARIABLES
  CONTEXT_REGISTRY,  \* functions.py: name -> registered context
  sys_modules,       \* the modules the host has imported so far
  pc,                \* "idle", "get_value", "eval_function", "done"
  call,              \* the call in progress, or the one that returned last
  attempts,          \* calls of _get_value made by the retry loop
  lookup,            \* outcome of the latest _get_value
  fn,                \* outcome of eval_function
  result,            \* what the call returned or raised
  types,             \* the class statements executed so far, in order
  objects,           \* the constructor calls made so far and their instances
  module_globals,    \* the namespace of the module that defines the classes
  heap,              \* what set_value has written: the caller's context object
                     \* after the call, and the attributes set on modules
  invoked            \* the calls the wrapper called last made to its function

vars == <<CONTEXT_REGISTRY, sys_modules, pc, call, attempts, lookup, fn, result,
          types, objects, module_globals, heap, invoked>>

NoCall == [op |-> "none", name |-> TextDesc(<<>>), context |-> NoneVal, strict |-> TRUE,
           prefer_modules |-> FALSE, num_trys |-> 0, function_of_interest |-> NoSelector,
           dynamic_args |-> FALSE, value |-> _NoValue, args |-> <<>>, kwargs |-> <<>>]
NoOutcome == [ok |-> FALSE, val |-> _NoValue, err |-> ""]
NoLookup == [ok |-> FALSE, val |-> _NoValue, err |-> "", up |-> NoOutcome, down |-> NoOutcome]
NoFn == [ok |-> FALSE, val |-> _NoValue, err |-> "", branch |-> "", merged |-> <<>>, context |-> NoneVal]
NoResult == [status |-> "none", val |-> _NoValue, err |-> "", value_error |-> "", function_error |-> ""]

Returned(v) == [status |-> "return", val |-> v, err |-> "", value_error |-> "", function_error |-> ""]
Raised(e) == [status |-> "raise", val |-> _NoValue, err |-> e, value_error |-> "", function_error |-> ""]
ResultOf(o) == IF o.ok THEN Returned(o.val) ELSE Raised(o.err)

Init ==
  /\ CONTEXT_REGISTRY = <<>>
  /\ sys_modules = {}
  /\ pc = "idle"
  /\ call = NoCall
  /\ attempts = 0
  /\ lookup = NoLookup
  /\ fn = NoFn
  /\ result = NoResult
  /\ types = <<>>
  /\ objects = <<>>
  /\ module_globals = ModuleGlobals
  /\ heap = [context |-> NoneVal, modules |-> <<>>]
  /\ invoked = <<>>

\* ------------------------------------------------------------------ actions
\* a name of the registry as the text of the recorded call
NameOf(name) == TextDesc(<<name>>)

\* the registration call as recorded while the caller holds its result
Registration(context, name) ==
  [NoCall EXCEPT !.op = "register_context", !.name = NameOf(name), !.context = context]

\* "CONTEXT_REGISTRY[name] = context" on the registry r
SetItem(r, name, context) == Update(r, [k \in {name} |-> context])

\* context.__name__: modules have one, numbers, dicts and plain objects do not
HasDunderName(context) == context.kind = "module"
DunderName(context) == Flat(<<context.ref>>)[1]
Registered_once(r, name, context) == IF name \in DOMAIN r THEN r ELSE SetItem(r, name, context)

\* the registry after register_context has assigned the item
Registered(r, name, context) == SetItem(r, name, context)

\* register_context(context, name): a missing name is read from the context,
\* the item is assigned and None is returned
register_context(context, name) ==
  /\ pc = "idle"
  /\ IF name = NoSelector /\ ~HasDunderName(context)
     THEN /\ CONTEXT_REGISTRY' = CONTEXT_REGISTRY
          /\ result' = Raised("AttributeError")
     ELSE /\ CONTEXT_REGISTRY' =
               Registered(CONTEXT_REGISTRY,
                          IF name = NoSelector THEN DunderName(context) ELSE name, context)
          /\ result' = Returned(NoneVal)
  /\ call' = Registration(context, name)
  /\ pc' = "done"
  /\ UNCHANGED <<sys_modules, attempts, lookup, fn, types, objects, module_globals, heap, invoked>>

\* get_value(name, prefer_modules, strict, context, num_trys) is entered
get_value(name, prefer_modules, strict, context, num_trys) ==
  /\ pc = "idle"
  /\ pc' = "get_value"
  /\ call' = [NoCall EXCEPT !.op = "get_value", !.name = name, !.prefer_modules = prefer_modules,
                            !.strict = strict, !.context = context, !.num_trys = num_trys]
  /\ UNCHANGED <<CONTEXT_REGISTRY, sys_modules, attempts, lookup, fn, result, types, objects, module_globals, heap, invoked>>

\* eval(expression, context, strict, function_of_interest, dynamic_args) is
\* entered: it first calls get_value(expression, context=context, strict=True)
eval(expression, context, strict, function_of_interest, dynamic_args) ==
  /\ pc = "idle"
  /\ pc' = "get_value"
  /\ call' = [NoCall EXCEPT !.op = "eval", !.name = expression, !.context = context,
                            !.strict = strict, !.num_trys = DefaultTrys,
                            !.function_of_interest = function_of_interest,
                            !.dynamic_args = dynamic_args]
  /\ UNCHANGED <<CONTEXT_REGISTRY, sys_modules, attempts, lookup, fn, result, types, objects, module_globals, heap, invoked>>

\* the failures the retry loop of get_value swallows
Swallowed == { "KeyError", "AttributeError", "ImportError" }
GuardedTrys_all(num_trys) == num_trys

\* "for _ in range(num_trys - 1)": the attempts made inside the try
GuardedTrys(num_trys) == num_trys - 1

\* one iteration of get_value: a call of _get_value
GetValueTry ==
  /\ pc = "get_value"
  /\ LET try(r) ==
           /\ attempts' = attempts + 1
           /\ sys_modules' = r.sm
           /\ lookup' = [ok |-> r.ok, val |-> r.val, err |-> r.err, up |-> r.up, down |-> r.down]
           /\ IF ~r.ok /\ attempts < GuardedTrys(call.num_trys) /\ r.err \in Swallowed
              THEN pc' = pc /\ result' = result
              ELSE IF call.op = "eval"
              THEN pc' = "eval_function" /\ result' = result
              ELSE pc' = "done" /\ result' = ResultOf(r)
     IN \E r \in { _get_value(call.name, call.prefer_modules,
                               IF call.op = "eval" THEN TRUE ELSE call.strict,
                               call.context, sys_modules, importlib_util) } : try(r)
  /\ UNCHANGED <<CONTEXT_REGISTRY, call, fn, types, objects, module_globals, heap, invoked>>

\* the rest of eval: eval_function on the same expression, then the choice
EvalFinish_function_first ==
  /\ pc = "eval_function"
  /\ LET choose(f) ==
           /\ fn' = f
           /\ result' = EvalResult(IF f.ok THEN [lookup EXCEPT !.ok = FALSE] ELSE lookup, f,
                                   call.strict, call.dynamic_args)
     IN choose(eval_function(call.name, call.function_of_interest, call.context, call.dynamic_args,
                             CONTEXT_REGISTRY, sys_modules))
  /\ pc' = "done"
  /\ UNCHANGED <<CONTEXT_REGISTRY, sys_modules, call, attempts, lookup, types, objects, module_globals, heap, invoked>>

EvalFinish ==
  /\ pc = "eval_function"
  /\ LET choose(f) ==
           /\ fn' = f
           /\ result' = EvalResult(lookup, f, call.strict, call.dynamic_args)
     IN choose(eval_function(call.name, call.function_of_interest, call.context, call.dynamic_args,
                             CONTEXT_REGISTRY, sys_modules))
  /\ pc' = "done"
  /\ UNCHANGED <<CONTEXT_REGISTRY, sys_modules, call, attempts, lookup, types, objects, module_globals, heap, invoked>>

\* a direct call of eval_function
EvalFunctionCall(function_descriptor, function_of_interest, context, dynamic_args) ==
  /\ pc = "idle"
  /\ LET returns(f) ==
           /\ fn' = f
           /\ result' = ResultOf(f)
     IN returns(eval_function(function_descriptor, function_of_interest, context, dynamic_args,
                              CONTEXT_REGISTRY, sys_modules))
  /\ call' = [NoCall EXCEPT !.op = "eval_function", !.name = function_descriptor,
                            !.context = context, !.function_of_interest = function_of_interest,
                            !.dynamic_args = dynamic_args]
  /\ pc' = "done"
  /\ UNCHANGED <<CONTEXT_REGISTRY, sys_modules, attempts, lookup, types, objects, module_globals, heap, invoked>>

\* the caller takes the result; the next call can start
Finish ==
  /\ pc = "done"
  /\ pc' = "idle"
  /\ call' = NoCall
  /\ attempts' = 0
  /\ lookup' = NoLookup
  /\ fn' = NoFn
  /\ result' = NoResult
  /\ UNCHANGED <<CONTEXT_REGISTRY, sys_modules, types, objects, module_globals, heap, invoked>>

\* the caller calls the wrapper that eval_function returned:
\* wrapper(*args, **kwargs) calls function(*args, **call_kwargs) and returns
\* what it returns
wrapper(args, kwargs) ==
  /\ pc = "done" /\ result.status = "return" /\ result.val.kind = "wrapper"
  /\ LET function == [result.val EXCEPT !.kind = "function"]
         called(call_kwargs) ==
           /\ invoked' = << [function |-> function, args |-> args, kwargs |-> call_kwargs] >>
           /\ result' = ResultOf(Call(function, args, call_kwargs, sys_modules))
     IN called(CallKwargs(Parameters(function), kwargs))
  /\ call' = [NoCall EXCEPT !.op = "wrapper", !.value = result.val, !.args = args, !.kwargs = kwargs]
  /\ UNCHANGED <<CONTEXT_REGISTRY, sys_modules, pc, attempts, lookup, fn, types, objects,
                 module_globals, heap>>

\* ---------------------------------------------------------------- set_value
\* int(split) for the index texts "0" and "1": the place in the list
Digits == <<"0", "1">>
IsIndex(seg) == Len(seg) = 1 /\ \E d \in DOMAIN Digits : Digits[d] = seg[1]
Place(seg) == CHOOSE d \in DOMAIN Digits : Digits[d] = seg[1]
Key(seg) == IF Len(seg) = 1 THEN seg[1] ELSE ""

\* the attributes of a value, with those set on a module by setattr
AttrsIn(var, sm, modules) ==
  IF var.kind = "module" /\ var.ref \in DOMAIN modules
  THEN Update(Attrs(var, sm), modules[var.ref])
  ELSE Attrs(var, sm)

Wrote(var, modules) == [ok |-> TRUE, err |-> "", var |-> var, modules |-> modules]
Threw(e, var, modules) == [ok |-> FALSE, err |-> e, var |-> var, modules |-> modules]

\* setattr(module, name, value)
SetModuleAttr(modules, module, name, value) ==
  Update(modules, [m \in {module.ref} |->
                     Update(IF module.ref \in DOMAIN modules THEN modules[module.ref] ELSE <<>>,
                            [k \in {name} |-> value])])

\* the last two branches of set_value: "var[...] = value" for a dict,
\* setattr(var, ..., value) for everything else; a list, a number and None
\* take no attribute
LastWrite(var, seg, value, modules) ==
  IF var.kind = "dict"
  THEN Wrote([var EXCEPT !.scope = Update(@, [k \in {Key(seg)} |-> value])], modules)
  ELSE IF var.kind = "object"
  THEN Wrote([var EXCEPT !.scope = Update(@, [k \in {Key(seg)} |-> value])], modules)
  ELSE IF var.kind = "module" THEN Wrote(var, SetModuleAttr(modules, var, Key(seg), value))
  ELSE Threw("AttributeError", var, modules)

\* the loop of set_value over all segments but the last, then the write;
\* the objects on the way are the caller's, so the write shows in var
RECURSIVE Assign(_, _, _, _, _, _)
Assign(var, splits, i, value, sm, modules) ==
  LET inside(child, put(_)) ==
        LET r == Assign(child, splits, i + 1, value, sm, modules)
        IN IF ~r.ok \/ child.kind = "module" THEN [r EXCEPT !.var = var]
           ELSE IF var.kind = "module"
           THEN Wrote(var, SetModuleAttr(r.modules, var, splits[i][1], r.var))
           ELSE [r EXCEPT !.var = put(r.var)]
  IN IF i = Len(splits) THEN LastWrite(var, splits[i], value, modules)
     ELSE IF var.kind = "dict"
     THEN IF ~HasName(var.scope, splits[i]) THEN Threw("KeyError", var, modules)
          ELSE inside(var.scope[splits[i][1]], LAMBDA c : [var EXCEPT !.scope[splits[i][1]] = c])
     ELSE IF var.kind = "list"
     THEN IF ~IsIndex(splits[i]) THEN Threw("ValueError", var, modules)
          ELSE IF Place(splits[i]) > Len(var.scope) THEN Threw("IndexError", var, modules)
          ELSE inside(var.scope[Place(splits[i])], LAMBDA c : [var EXCEPT !.scope[Place(splits[i])] = c])
     ELSE IF ~HasName(AttrsIn(var, sm, modules), splits[i]) THEN Threw("AttributeError", var, modules)
          ELSE inside(AttrsIn(var, sm, modules)[splits[i][1]],
                      LAMBDA c : IF var.kind = "object" THEN [var EXCEPT !.scope[splits[i][1]] = c]
                                 ELSE var)

\* set_value(name, value, context): without a context the parent is looked
\* for with greedy_import_context(name, upwards=True, level=1), which leaves
\* trial_index unbound when the name has one segment
set_value(name, value, context) ==
  /\ pc = "idle"
  /\ LET written(g) ==
           LET r == IF ~g.bound THEN Threw("UnboundLocalError", context, heap.modules)
                    ELSE Assign(g.module, Split(g.name), 1, value, g.sm, heap.modules)
           IN /\ heap' = [context |-> IF context = NoneVal THEN NoneVal ELSE r.var,
                          modules |-> r.modules]
              /\ result' = IF r.ok THEN Returned(NoneVal) ELSE Raised(r.err)
              /\ sys_modules' = g.sm
     IN written(IF context = NoneVal
                THEN greedy_import_context(name, TRUE, 1, sys_modules, importlib_util)
                ELSE [bound |-> TRUE, module |-> context, name |-> name, sm |-> sys_modules])
  /\ call' = [NoCall EXCEPT !.op = "set_value", !.name = TextDesc(name), !.context = context,
                            !.value = value]
  /\ pc' = "done"
  /\ UNCHANGED <<CONTEXT_REGISTRY, attempts, lookup, fn, types, objects, module_globals, invoked>>

\* ------------------------------------------------------- wrappers: values

\* a plain class called with keyword arguments: the instance keeps them
Instance(cls, kwargs) == [kind |-> "object", ref |-> cls.ref, scope |-> kwargs]

\* the dict object a declared DynamicField holds as constructor_arguments:
\* one object per declaration, reached from every table the entry is copied to
Cell(owner, name) == [kind |-> "cell", ref |-> name, scope |-> <<>>, owner |-> owner]

_DY_TYPE_SUFFIX == "_type"
_DY_CONSTRUCTOR_ARGS_SUFFIX == "_args"

\* DynamicField.__init__; is_class turns eval on
DynamicField(value, evaluate, is_class, constructor_arguments, nullable) ==
  [kind |-> "field", _value |-> value, eval |-> evaluate \/ is_class, prefer_modules |-> FALSE,
   strict |-> TRUE, context |-> NoneVal, is_class |-> is_class,
   constructor_arguments |-> constructor_arguments, nullable |-> nullable]
field(default, evaluate) == DynamicField(default, evaluate, FALSE, DictVal(<<>>), FALSE)
composite(default, nullable, constructor_kwargs) ==
  DynamicField(default, TRUE, TRUE, DictVal(constructor_kwargs), nullable)

\* get_value as the wrappers call it: the retry loop with the default budget
RECURSIVE original_get_value(_, _, _, _, _, _)
original_get_value(name, prefer_modules, strict, context, sm, tried) ==
  LET next(r) ==
        IF ~r.ok /\ tried < GuardedTrys(DefaultTrys) /\ r.err \in Swallowed
        THEN original_get_value(name, prefer_modules, strict, context, r.sm, tried + 1)
        ELSE [ok |-> r.ok, val |-> r.val, err |-> r.err, sm |-> r.sm]
  IN The({ next(r) : r \in { _get_value(name, prefer_modules, strict, context, sm, importlib_util) } })

\* a field's raw value as the name get_value is given
NameGiven(v) == IF v.kind = "str" THEN TextDesc(v.ref) ELSE ValueDesc(v)

\* the module namespace as the context of a field: the dict itself, not a copy
GlobalsRef == [kind |-> "globals", ref |-> <<>>, scope |-> <<>>]
ContextOf(f, globals) == IF f.context = GlobalsRef THEN DictVal(globals) ELSE f.context

\* DynamicField.value
FieldValue(f, globals, sm) ==
  IF ~f.eval THEN Return(f._value, sm)
  ELSE original_get_value(NameGiven(f._value), f.prefer_modules, f.strict, ContextOf(f, globals), sm, 0)

\* DynamicField.get_instance with the arguments the field holds
get_instance(f, arguments, globals, sm) ==
  LET called(r) ==
        IF ~r.ok THEN r
        ELSE IF r.val.kind # "class" THEN Raise("TypeError", r.sm)
        ELSE Return(Instance(r.val, arguments), r.sm)
  IN IF ~f.is_class THEN Raise("TypeError", sm) ELSE called(FieldValue(f, globals, sm))

\* DynamicField.change_context of dypy: only a missing context is replaced
change_context(f, context) == IF f.context = NoneVal THEN [f EXCEPT !.context = context] ELSE f

\* ------------------------------------------------ wrappers: class statements
\* A class is an entry of the list of class statements executed so far; its
\* base is the class defined last before it (0: object).  A field name is a
\* sequence of its parts, so that "x" + "_args" is <<"x", "_args">>.
Suffixed(name, suffix) == Append(name, suffix)
EndsWith(name, suffix) == Len(name) >= 1 /\ name[Len(name)] = suffix
Stem(name) == SubSeq(name, 1, Len(name) - 1)

\* the entries of a dict: those of the declaration's own dict object when the
\* value is that object, those of the literal otherwise
Deref(T, v) == IF v.kind = "cell" THEN T[v.owner].cells[v.ref] ELSE v.scope
ArgumentsOf(T, f) == Deref(T, f.constructor_arguments)

\* one layer of a constructor; a constructor is the list of its layers,
\* outermost first
Layer(kind, owner) == [layer |-> kind, owner |-> owner]
ObjectInit == << Layer("object", 0) >>

Param(name, kind, default, annotation, owner) ==
  [name |-> name, kind |-> kind, default |-> default, annotation |-> annotation, owner |-> owner]
SelfParam == Param(<<"self">>, "positional", _NoValue, _NoValue, 0)
VarKinds == { "var_positional", "var_keyword" }
\* object.__init__(self, /, *args, **kwargs) and "def __init__(self, **kw)"
ObjectSignature ==
  { SelfParam, Param(<<"args">>, "var_positional", _NoValue, _NoValue, 0),
    Param(<<"kwargs">>, "var_keyword", _NoValue, _NoValue, 0) }
BodySignature == { SelfParam, Param(<<"kw">>, "var_keyword", _NoValue, _NoValue, 0) }
\* "def __init__(self, **m)" and "def __init__(self, m=None, **kw)"
VarKeywordSignature(name) == { SelfParam, Param(name, "var_keyword", _NoValue, _NoValue, 0) }
KeywordSignature(name) == BodySignature \cup { Param(name, "positional", NoneVal, _NoValue, 0) }

\* "@dynamic_method def m(self): ..." in the body of the class statement i:
\* the function, tagged with its blend option ("none": no option given);
\* "untagged" is a plain "def m(self): ..."
TaggedMethod(i, m, blend) ==
  [kind |-> "function", ref |-> <<"v">>, scope |-> <<>>, owner |-> i,
   __is_dynamic_method__ |-> blend # "untagged",
   __blend__ |-> IF blend = "untagged" THEN "none" ELSE blend]

\* the class object a class statement creates, before any decorator runs
NewClass(statement, i, base) ==
  [ok |-> TRUE, err |-> "", base |-> base, statement |-> statement,
   decl |-> [n \in DOMAIN statement.decl |->
               IF statement.decl[n].is_class
               THEN [statement.decl[n] EXCEPT !.constructor_arguments = Cell(i, n)]
               ELSE statement.decl[n]],
   cells |-> [n \in { m \in DOMAIN statement.decl : statement.decl[m].is_class } |->
                statement.decl[n].constructor_arguments.scope],
   has_fields |-> FALSE, table |-> <<>>,
   defs |-> [m \in DOMAIN statement.methods |-> TaggedMethod(i, m, statement.methods[m])],
   has_methods |-> FALSE, dynamic_methods |-> {}, blended_dynamic_methods |-> {},
   init |-> IF statement.body = "none" THEN <<>> ELSE << Layer("body", i) >>,
   signature |-> IF statement.body = "none" THEN {} ELSE statement.signature]

\* cls.__init__ and its signature: the nearest one along the ancestry
RECURSIVE InitOf(_, _)
InitOf(T, i) ==
  IF i = 0 THEN ObjectInit ELSE IF T[i].init # <<>> THEN T[i].init ELSE InitOf(T, T[i].base)
RECURSIVE SignatureOf(_, _)
SignatureOf(T, i) ==
  IF i = 0 THEN ObjectSignature
  ELSE IF T[i].init # <<>> THEN T[i].signature ELSE SignatureOf(T, T[i].base)

\* getattr(b, _FIELDS, None)
RECURSIVE FieldsOf(_, _)
FieldsOf(T, b) ==
  IF b = 0 THEN [found |-> FALSE, table |-> <<>>]
  ELSE IF T[b].has_fields THEN [found |-> TRUE, table |-> T[b].table]
  ELSE FieldsOf(T, T[b].base)

\* the ancestors of a class, most base first: cls.__mro__[-1:0:-1] without object
RECURSIVE Ancestors(_, _)
Ancestors(T, i) == IF T[i].base = 0 THEN <<>> ELSE Append(Ancestors(T, T[i].base), T[i].base)

\* the loop over the bases: a name that is already there is not assigned again
RECURSIVE MergeBases(_, _, _, _)
MergeBases(T, bases, k, dynamic_fields) ==
  IF k > Len(bases) THEN dynamic_fields
  ELSE MergeBases(T, bases, k + 1,
         IF FieldsOf(T, bases[k]).found
         THEN Update(FieldsOf(T, bases[k]).table, dynamic_fields)
         ELSE dynamic_fields)

Entry(annotation, default, owner) == [annotation |-> annotation, default |-> default, owner |-> owner]

\* val.value, or val.get_instance() for a composite, of the declaration n
Resolved(T, i, n, globals, sm) ==
  IF T[i].decl[n].is_class
  THEN get_instance(change_context(T[i].decl[n], GlobalsRef), ArgumentsOf(T, T[i].decl[n]), globals, sm)
  ELSE FieldValue(change_context(T[i].decl[n], GlobalsRef), globals, sm)

\* the entries the declarations of the class put in dynamic_fields
DeclaredNames(c) ==
  UNION { IF c.decl[n].is_class
          THEN { n, Suffixed(n, _DY_TYPE_SUFFIX), Suffixed(n, _DY_CONSTRUCTOR_ARGS_SUFFIX) }
          ELSE { n } : n \in DOMAIN c.decl }
DeclaredFields(T, i, globals, sm) ==
  LET entry(m) ==
        IF m \in DOMAIN T[i].decl
        THEN IF T[i].decl[m].is_class
             THEN Entry(change_context(T[i].decl[m], GlobalsRef), Resolved(T, i, m, globals, sm).val, i)
             ELSE Entry(TypeVal(Resolved(T, i, m, globals, sm).val.kind),
                        Resolved(T, i, m, globals, sm).val, 0)
        ELSE IF EndsWith(m, _DY_TYPE_SUFFIX)
        THEN Entry(TypeVal("str"), T[i].decl[Stem(m)]._value, 0)
        ELSE Entry(TypeVal("dict"), Cell(i, Stem(m)), 0)
  IN Update(<<>>, [m \in DeclaredNames(T[i]) |-> entry(m)])

FieldParam(name, e) == Param(name, "keyword", e.default, e.annotation, e.owner)

\* make_inheritence_strict
make_inheritence_strict(c, i, attribute_to_check) ==
  [c EXCEPT !.init = << Layer(attribute_to_check, i) >> \o @]

\* _dynamize_fields on the class i
_dynamize_fields(T, i, inheritence_strict, globals, sm) ==
  LET failed == { n \in DOMAIN T[i].decl : ~Resolved(T, i, n, globals, sm).ok }
      decorated(dynamic_fields, prev_init, sig) ==
        LET params == { FieldParam(n, dynamic_fields[n]) : n \in DOMAIN dynamic_fields }
            new == [T[i] EXCEPT !.decl = <<>>, !.has_fields = TRUE, !.table = dynamic_fields,
                                !.init = << Layer("fields", i) >> \o prev_init,
                                !.signature = { p \in sig \cup params : p.kind \notin VarKinds }]
        IN IF \E p \in sig, q \in params : p.kind \notin VarKinds /\ p.name = q.name /\ p # q
           THEN [T[i] EXCEPT !.ok = FALSE, !.err = "ValueError"]
           ELSE IF inheritence_strict THEN make_inheritence_strict(new, i, "_FIELDS") ELSE new
  IN IF failed # {}
     THEN [T[i] EXCEPT !.ok = FALSE, !.err = Resolved(T, i, CHOOSE n \in failed : TRUE, globals, sm).err]
     ELSE decorated(Update(MergeBases(T, Ancestors(T, i), 1, <<>>), DeclaredFields(T, i, globals, sm)),
                    InitOf(T, i), SignatureOf(T, i))

\* --------------------------------------------------- wrappers: construction
\* keyword arguments keep their order: a list of (name, value)
Kw(name, value) == [name |-> name, value |-> value]
KwNames(kwargs) == { kwargs[k].name : k \in DOMAIN kwargs }
KwDict(kwargs) ==
  Update(<<>>, [n \in KwNames(kwargs) |-> kwargs[CHOOSE k \in DOMAIN kwargs : kwargs[k].name = n].value])

\* the construction in progress: the instance, the classes, the loaded
\* modules, the module namespace, and what has happened so far
Fail(st, e) == [st EXCEPT !.ok = FALSE, !.err = e]
SetAttr(st, name, value) == [st EXCEPT !.attrs = Update(@, [n \in {name} |-> value])]
Event(what, owner, kwargs, st) ==
  [st EXCEPT !.log = Append(@, [what |-> what, owner |-> owner, kwargs |-> kwargs, attrs |-> st.attrs])]
After(r, st, name) == IF r.ok THEN SetAttr([st EXCEPT !.sm = r.sm], name, r.val)
                      ELSE Fail([st EXCEPT !.sm = r.sm], r.err)

\* "write the dynamic class values": the composite name is rebuilt
Rebuild(name, given, st) ==
  LET table == FieldsOf(st.T, st.cls).table
      has == name \in DOMAIN table
      val == table[name].annotation
      args == Suffixed(name, _DY_CONSTRUCTOR_ARGS_SUFFIX)
      built(class_name, class_args, constructor_args, T) ==
        After(get_instance([DynamicField(class_name, FALSE, TRUE, DictVal(constructor_args), FALSE)
                              EXCEPT !.context = GlobalsRef],
                           constructor_args, st.globals, st.sm), [st EXCEPT !.T = T], name)
      merged(class_name, class_args, cell) ==
        built(class_name, class_args, Update(st.T[cell.owner].cells[cell.ref], class_args),
              [st.T EXCEPT ![cell.owner].cells[cell.ref] = Update(@, class_args)])
      rebuilt(class_name, class_args) ==
        IF class_name = NoneVal
        THEN IF val.nullable THEN SetAttr(st, name, NoneVal) ELSE Fail(st, "TypeError")
        ELSE IF val._value = class_name
        THEN merged(class_name, class_args, val.constructor_arguments)
        ELSE built(class_name, class_args, class_args, st.T)
  IN IF ~has \/ val.kind # "field"
     THEN Fail(st, IF ~has /\ name \in DOMAIN given /\ args \in DOMAIN given /\ given[name] # NoneVal
                   THEN "UnboundLocalError" ELSE "AttributeError")
     ELSE rebuilt(IF name \in DOMAIN given THEN given[name] ELSE val._value,
                  IF args \in DOMAIN given THEN Deref(st.T, given[args]) ELSE ArgumentsOf(st.T, val))

RECURSIVE RebuildAll(_, _, _)
RebuildAll(names_with_dict, given, st) ==
  IF names_with_dict = {} \/ ~st.ok THEN st
  ELSE LET name == CHOOSE n \in names_with_dict : TRUE
       IN RebuildAll(names_with_dict \ {name}, given, Rebuild(name, given, st))

ActualValue_resolved(value, st) ==
  IF value.kind = "str"
  THEN FieldValue(change_context(field(value, TRUE), GlobalsRef), st.globals, st.sm).val
  ELSE value

\* "works with both DynamicField and the actual value": what is given and is
\* no DynamicField is the value to assign
ActualValue(value, st) == value

\* "write stuff that has been inputted in the init function"
RECURSIVE WriteGiven(_, _, _, _)
WriteGiven(del_from_kwargs, k, names_with_dict, st) ==
  IF ~st.ok THEN st
  ELSE IF k > Len(del_from_kwargs) THEN RebuildAll(names_with_dict, KwDict(del_from_kwargs), st)
  ELSE LET name == del_from_kwargs[k].name
           value == del_from_kwargs[k].value
           table == FieldsOf(st.T, st.cls).table
       IN IF value.kind = "field"
          THEN WriteGiven(del_from_kwargs, k + 1, names_with_dict,
                 After(IF value.is_class
                       THEN get_instance(change_context(value, GlobalsRef), ArgumentsOf(st.T, value),
                                         st.globals, st.sm)
                       ELSE FieldValue(value, st.globals, st.sm), st, name))
          ELSE IF Suffixed(name, _DY_CONSTRUCTOR_ARGS_SUFFIX) \in DOMAIN table
                  \/ EndsWith(name, _DY_CONSTRUCTOR_ARGS_SUFFIX)
          THEN WriteGiven(del_from_kwargs, k + 1,
                 names_with_dict \cup { IF EndsWith(name, _DY_CONSTRUCTOR_ARGS_SUFFIX)
                                        THEN Stem(name) ELSE name }, st)
          ELSE WriteGiven(del_from_kwargs, k + 1, names_with_dict, SetAttr(st, name, ActualValue(value, st)))

\* set_all_values: the defaults of the table of the instance's class, then
\* what the constructor was given
set_all_values(del_from_kwargs, owner, st) ==
  LET defaults(table) == [st EXCEPT !.attrs = Update(@, [n \in DOMAIN table |-> table[n].default])]
  IN IF ~st.ok THEN st
     ELSE Event("set_all_values", owner, del_from_kwargs,
                WriteGiven(del_from_kwargs, 1, {}, defaults(FieldsOf(st.T, st.cls).table)))

\* ------------------------------------------------------ wrappers: methods
PREF_FOR_CONSTRUCTOR == "__dy__"
Prefixed(name) == << PREF_FOR_CONSTRUCTOR >> \o name

\* getattr(b, "__dynamic_methods__", set()) and the blended set with it
RECURSIVE MethodsOf(_, _)
MethodsOf(T, b) ==
  IF b = 0 THEN [dynamic |-> {}, blended |-> {}]
  ELSE IF T[b].has_methods
  THEN [dynamic |-> T[b].dynamic_methods, blended |-> T[b].blended_dynamic_methods]
  ELSE MethodsOf(T, T[b].base)

\* dir(cls) and getattr(cls, name): the functions defined along the ancestry
RECURSIVE Dir(_, _)
Dir(T, i) == IF i = 0 THEN {} ELSE DOMAIN T[i].defs \cup Dir(T, T[i].base)
RECURSIVE ClassAttr(_, _, _)
ClassAttr(T, i, m) ==
  IF i = 0 THEN _NoValue ELSE IF m \in DOMAIN T[i].defs THEN T[i].defs[m] ELSE ClassAttr(T, T[i].base, m)

\* th.Optional[FunctionDescriptor], the annotation of the added parameters
OptionalFunctionDescriptor == TypeVal("FunctionDescriptor")

Inherited_none(T, i) == [dynamic |-> {}, blended |-> {}]

\* "handle inheritence, merge the dynamic methods of the parent classes": the
\* union of the sets recorded along cls.__mro__[-1:0:-1]
Inherited(T, i) ==
  LET bases == { Ancestors(T, i)[k] : k \in DOMAIN Ancestors(T, i) }
  IN [dynamic |-> UNION { MethodsOf(T, b).dynamic : b \in bases },
      blended |-> UNION { MethodsOf(T, b).blended : b \in bases }]

\* _dynamize_methods on the class i
_dynamize_methods(T, i, inheritence_strict, blend) ==
  LET tagged == { m \in Dir(T, i) : ClassAttr(T, i, m).__is_dynamic_method__ }
      blend_spec(m) == IF ClassAttr(T, i, m).__blend__ = "none" THEN blend
                       ELSE ClassAttr(T, i, m).__blend__ = "blend"
      bases == Inherited(T, i)
      wrapped(dynamic_methods, blended_dynamic_methods, init_before, sig) ==
        LET params ==
              { Param(Prefixed(m), "keyword", NoneVal, OptionalFunctionDescriptor, 0) : m \in dynamic_methods }
              \cup { Param(m, "keyword", _NoValue, OptionalFunctionDescriptor, 0) : m \in blended_dynamic_methods }
            new == [T[i] EXCEPT !.has_methods = TRUE, !.dynamic_methods = dynamic_methods,
                                !.blended_dynamic_methods = blended_dynamic_methods,
                                !.init = << Layer("methods", i) >> \o init_before,
                                !.signature = { p \in sig \cup params : p.kind \notin VarKinds }]
        IN IF \E p \in sig, q \in params : p.kind \notin VarKinds /\ p.name = q.name /\ p # q
           THEN [T[i] EXCEPT !.ok = FALSE, !.err = "ValueError"]
           ELSE IF inheritence_strict THEN make_inheritence_strict(new, i, "__dynamic_methods__") ELSE new
  IN wrapped(tagged \cup bases.dynamic, { m \in tagged : blend_spec(m) } \cup bases.blended,
             InitOf(T, i), SignatureOf(T, i))

\* types.MethodType(fn, self)
Bound(function) == [kind |-> "method", ref |-> function.ref, scope |-> function.scope]
Bind_on_type(st, method_name, function) ==
  [st EXCEPT !.T[st.cls].defs = Update(@, [m \in {method_name} |-> function])]

\* "setattr(self, method_name, types.MethodType(fn, self))"
Bind(st, method_name, function) == SetAttr(st, method_name, Bound(function))

\* implement_method(self, method_name, function_descriptor, context=context)
implement_method(st, method_name, function_descriptor, context) ==
  LET left(function) == IF context = GlobalsRef /\ function.context.kind = "dict"
                  THEN [st EXCEPT !.globals = function.context.scope] ELSE st
      bound(function) ==
        IF ~function.ok THEN Fail(left(function), function.err)
        ELSE IF ~callable(function.val) THEN Fail(left(function), "TypeError")
        ELSE Bind(left(function), method_name, function.val)
  IN IF ~st.ok THEN st
     ELSE IF method_name \notin MethodsOf(st.T, st.cls).dynamic THEN Fail(st, "AttributeError")
     ELSE bound(eval_function(NameGiven(function_descriptor), NoSelector,
                              IF context = GlobalsRef THEN DictVal(st.globals) ELSE context,
                              FALSE, st.registry, st.sm))

KeyName_bare(T, owner, name) ==
  IF Len(name) > 1 /\ name[1] = PREF_FOR_CONSTRUCTOR THEN Tail(name) ELSE name

\* the name of the method a constructor keyword stands for (<<>>: none)
KeyName(T, owner, name) ==
  IF Len(name) > 1 /\ name[1] = PREF_FOR_CONSTRUCTOR THEN Tail(name)
  ELSE IF name \in T[owner].blended_dynamic_methods THEN name
  ELSE <<>>
Implements(T, owner, name) == KeyName(T, owner, name) \in T[owner].dynamic_methods

\* "Implement the methods that are passed as keyword arguments"
RECURSIVE ImplementGiven(_, _, _, _)
ImplementGiven(kwargs, k, owner, st) ==
  IF ~st.ok \/ k > Len(kwargs) THEN st
  ELSE ImplementGiven(kwargs, k + 1, owner,
         IF Implements(st.T, owner, kwargs[k].name)
         THEN implement_method(st, KeyName(st.T, owner, kwargs[k].name), kwargs[k].value, GlobalsRef)
         ELSE st)

\* implement_methods(self, **kwargs)
RECURSIVE ImplementAll(_, _, _)
ImplementAll(kwargs, k, st) ==
  IF ~st.ok \/ k > Len(kwargs) THEN st
  ELSE ImplementAll(kwargs, k + 1, implement_method(st, kwargs[k].name, kwargs[k].value, NoneVal))

InOwnDict_inherited(T, cls, attribute_to_check) == FieldsOf(T, cls).found

\* "attribute_to_check in self.__class__.__dict__": the marker is in the
\* namespace of the class itself
InOwnDict(T, cls, attribute_to_check) ==
  IF attribute_to_check = "_FIELDS" THEN T[cls].has_fields ELSE T[cls].has_methods

Reapplied_never(del_from_kwargs, owner, st) == st

\* "Then re-write all the values in the __init__": set_all_values once more,
\* after the previous constructor has returned
Reapplied(del_from_kwargs, owner, st) == set_all_values(del_from_kwargs, owner, st)

\* what the constructor bodies of the class statements assign
BodyWrites == { <<"a">>, <<"x">> }
BodyValue == IntVal("0")

\* the constructor: its layers run outermost first
RECURSIVE RunInit(_, _, _)
RunInit(layers, kwargs, st) ==
  LET l == Head(layers)
      own(n) == n \in DOMAIN st.T[l.owner].table
      body(entered) ==
        LET written == [entered EXCEPT !.attrs = Update(@, [n \in BodyWrites |-> BodyValue])]
        IN IF st.T[l.owner].statement.body = "chain"
           THEN RunInit(InitOf(st.T, st.T[l.owner].base), kwargs, written)
           ELSE written
  IN IF ~st.ok THEN st
     ELSE CASE l.layer = "object" -> IF Len(kwargs) > 0 THEN Fail(st, "TypeError") ELSE st
            [] l.layer = "body" -> body(Event("body", l.owner, kwargs, st))
            [] l.layer \in { "_FIELDS", "__dynamic_methods__" } ->
                 IF ~InOwnDict(st.T, st.cls, l.layer)
                 THEN Fail(Event("strict", l.owner, kwargs, st), "AttributeError")
                 ELSE RunInit(Tail(layers), kwargs, st)
            [] l.layer = "methods" ->
                 RunInit(Tail(layers), SelectSeq(kwargs, LAMBDA a : ~Implements(st.T, l.owner, a.name)),
                         ImplementGiven(kwargs, 1, l.owner, st))
            [] l.layer = "fields" ->
                 Reapplied(SelectSeq(kwargs, LAMBDA a : own(a.name)), l.owner,
                   RunInit(Tail(layers), SelectSeq(kwargs, LAMBDA a : ~own(a.name)),
                     set_all_values(SelectSeq(kwargs, LAMBDA a : own(a.name)), l.owner, st)))

\* ------------------------------------------------------- wrappers: actions
\* a construction, or a later call on the instance, about to start
NewInstance(cls, attrs, log, T, sm, globals, registry) ==
  [ok |-> TRUE, err |-> "", cls |-> cls, attrs |-> attrs, T |-> T, sm |-> sm, globals |-> globals,
   registry |-> registry, log |-> log]

\* the class defined last: the base of the next class statement
RECURSIVE Top(_, _)
Top(T, i) == IF i = 0 THEN 0 ELSE IF T[i].ok THEN i ELSE Top(T, i - 1)

\* "@dynamize_methods @dynamize_fields class ...(base): ...": the class
\* object is created and the decorators, when there are any, are applied
class_statement(statement) ==
  /\ pc = "idle"
  /\ Len(types) + Len(objects) < MaxSteps
  /\ LET i == Len(types) + 1
         created == Append(types, NewClass(statement, i, Top(types, Len(types))))
         with_fields(T) ==
           IF statement.fields = "none" THEN T
           ELSE [T EXCEPT ![i] = _dynamize_fields(T, i, statement.fields = "strict",
                                                  module_globals, sys_modules)]
         with_methods(T) ==
           IF statement.dynamize_methods = "none" \/ ~T[i].ok THEN T
           ELSE [T EXCEPT ![i] = _dynamize_methods(T, i, statement.dynamize_methods = "strict",
                                                   statement.blend)]
     IN types' = with_methods(with_fields(created))
  /\ UNCHANGED <<CONTEXT_REGISTRY, sys_modules, pc, call, attempts, lookup, fn, result,
                 objects, module_globals, heap, invoked>>

\* cls(**kwargs): a new instance is given to the constructor of its class
construct(cls, kwargs) ==
  /\ pc = "idle"
  /\ Len(types) + Len(objects) < MaxSteps
  /\ cls \in DOMAIN types /\ types[cls].ok
  /\ LET made(st) ==
           /\ objects' = Append(objects, [cls |-> cls, kwargs |-> kwargs, ok |-> st.ok, err |-> st.err,
                                          attrs |-> st.attrs, log |-> st.log, implemented |-> {}])
           /\ types' = st.T
           /\ sys_modules' = st.sm
           /\ module_globals' = st.globals
     IN made(RunInit(InitOf(types, cls), kwargs,
                     NewInstance(cls, <<>>, <<>>, types, sys_modules, module_globals, CONTEXT_REGISTRY)))
  /\ UNCHANGED <<CONTEXT_REGISTRY, pc, call, attempts, lookup, fn, result, heap, invoked>>

\* obj.implement_methods(**kwargs) on the instance k
implement_methods(k, kwargs) ==
  /\ pc = "idle"
  /\ k \in DOMAIN objects /\ objects[k].ok
  /\ LET returned(st) ==
           /\ objects' = [objects EXCEPT ![k].attrs = st.attrs,
                                         ![k].implemented =
                                           @ \cup { n \in KwNames(kwargs) : st.ok }]
           /\ types' = st.T
           /\ module_globals' = st.globals
     IN returned(ImplementAll(kwargs, 1,
                   NewInstance(objects[k].cls, objects[k].attrs, objects[k].log, types, sys_modules,
                               module_globals, CONTEXT_REGISTRY)))
  /\ UNCHANGED <<CONTEXT_REGISTRY, sys_modules, pc, call, attempts, lookup, fn, result, heap, invoked>>

\* ------------------------------------------------------- wrappers: inputs
IntField(n, v) == [k \in {<<n>>} |-> field(IntVal(v), FALSE)]
PathField(n, t) == [k \in {<<n>>} |-> field(StrVal(t), TRUE)]
Statement(decl, body, fields) ==
  [decl |-> decl, body |-> body, fields |-> fields, methods |-> <<>>, dynamize_methods |-> "none",
   blend |-> TRUE, signature |-> BodySignature]

\* class statements with plain fields: a = field(1), b = field(2),
\* a = field(3), e = field("v", eval=True), or none; the class defines no
\* constructor, one that assigns, or one that assigns and then calls the
\* inherited one; decorated strictly, leniently or not at all
FieldStatements ==
  { Statement(IntField("a", "1"), "none", f) : f \in { "strict", "lenient" } }
  \cup { Statement(IntField("a", "1"), "plain", "strict") }
  \cup { Statement(IntField("a", "3"), b, "strict") : b \in { "none", "chain" } }
  \cup { Statement(d, "none", "strict") : d \in { IntField("b", "2"), PathField("e", <<"v">>) } }
  \cup { Statement(<<>>, b, "strict") : b \in { "none", "chain" } }
  \cup { Statement(<<>>, b, "none") : b \in { "none", "plain", "chain" } }

\* keyword arguments of a constructor call: none, a = 5, a = 5 with a
\* keyword k that is no field, the path "q.p" for e, and
\* field("p.v", eval=True) for e
FieldKwargs ==
  { <<>>,
    << Kw(<<"a">>, IntVal("5")) >>,
    << Kw(<<"a">>, IntVal("5")), Kw(<<"k">>, IntVal("1")) >>,
    << Kw(<<"e">>, StrVal(<<"q", ".", "p">>)) >>,
    << Kw(<<"e">>, field(StrVal(<<"p", ".", "v">>), TRUE)) >> }

FieldNext ==
  \/ \E s \in FieldStatements : class_statement(s)
  \/ \E c \in 1..MaxSteps, kw \in FieldKwargs : construct(c, kw)

FieldSpec == Init /\ [][FieldNext]_vars

\* class statements with a composite: x = composite("p", k=1, j=2), and a
\* decorated subclass that declares nothing
CompositeField(n, t, kwargs) == [k \in {<<n>>} |-> composite(StrVal(t), FALSE, kwargs)]
KJ(k, j) == [a \in {"k", "j"} |-> IF a = "k" THEN IntVal(k) ELSE IntVal(j)]
K(k) == [a \in {"k"} |-> IntVal(k)]
CompositeStatements ==
  { Statement(CompositeField("x", <<"p">>, KJ("1", "2")), "none", "strict"),
    Statement(<<>>, "none", "strict") }

\* keyword arguments for x, x_args and x_type
X == <<"x">>
X_args == Suffixed(X, _DY_CONSTRUCTOR_ARGS_SUFFIX)
X_type == Suffixed(X, _DY_TYPE_SUFFIX)
CompositeKwargs ==
  { <<>>,
    << Kw(X_args, DictVal(K("5"))) >>,
    << Kw(X, StrVal(<<"q", ".", "v">>)) >>,
    << Kw(X, StrVal(<<"q", ".", "v">>)), Kw(X_args, DictVal(K("5"))) >>,
    << Kw(X, StrVal(<<"p">>)), Kw(X_args, DictVal(K("5"))) >>,
    << Kw(X_type, StrVal(<<"q", ".", "v">>)) >>,
    << Kw(X, NoneVal) >> }

\* x_type and x_args read from an instance, as keyword arguments
RoundTrip(o) == << Kw(X_type, o.attrs[X_type]), Kw(X_args, o.attrs[X_args]) >>

CompositeNext ==
  \/ \E s \in CompositeStatements : class_statement(s)
  \/ \E c \in 1..MaxSteps, kw \in CompositeKwargs : construct(c, kw)
  \/ \E k \in 1..MaxSteps :
       /\ k \in DOMAIN objects /\ objects[k].ok /\ X_type \in DOMAIN objects[k].attrs
       /\ construct(objects[k].cls, RoundTrip(objects[k]))

CompositeSpec == Init /\ [][CompositeNext]_vars

\* class statements with a method m tagged @dynamic_method: blended by the
\* decorator's default or not blended, with or without a constructor; a
\* decorated subclass whose constructor calls the inherited one, and an
\* undecorated subclass; decorated classes that define m without the tag
\* or tagged with blend=False; constructors that have a parameter named m
M == <<"m">>
MethodStatement(methods, body, dynamize_methods, blend) ==
  [Statement(<<>>, body, "none") EXCEPT !.methods = methods, !.dynamize_methods = dynamize_methods,
                                        !.blend = blend]
Tagged(m, blend) == [k \in {m} |-> blend]
MethodStatements ==
  { MethodStatement(Tagged(M, "none"), b, "strict", TRUE) : b \in { "none", "plain" } }
  \cup { MethodStatement(Tagged(M, "none"), "plain", "lenient", FALSE),
         MethodStatement(<<>>, "chain", "strict", TRUE),
         MethodStatement(<<>>, "none", "none", TRUE),
         MethodStatement(Tagged(M, "untagged"), "none", "strict", FALSE),
         MethodStatement(Tagged(M, "noblend"), "none", "strict", TRUE) }
  \cup { [MethodStatement(Tagged(M, "none"), "plain", "strict", TRUE) EXCEPT !.signature = s] :
            s \in { VarKeywordSignature(M), KeywordSignature(M) } }

\* replacements: the texts "lambda v" and "lambda p", a function object, and
\* the number 1, which is no function
Replacements == { StrVal(<<"lambda", "p">>), FunctionVal(<<"q">>, <<>>) }
MethodKwargs ==
  { <<>>,
    << Kw(M, StrVal(<<"lambda", "v">>)) >>,
    << Kw(M, IntVal("1")) >>,
    << Kw(Prefixed(M), StrVal(<<"lambda", "v">>)) >>,
    << Kw(M, StrVal(<<"lambda", "p">>)), Kw(<<"k">>, IntVal("1")) >> }

MethodNext ==
  \/ \E s \in MethodStatements : class_statement(s)
  \/ \E c \in 1..MaxSteps, kw \in MethodKwargs : construct(c, kw)
  \/ \E k \in 1..MaxSteps, r \in Replacements : implement_methods(k, << Kw(M, r) >>)

MethodSpec == Init /\ [][MethodNext]_vars

\* calls of set_value: the contexts None, {"v": [1, 2], "p": {"v": 7},
\* "q": <object>}, [{"v": 1}], an object and the number 3; names whose
\* parent is a dict, an object, a list, a number or a module, and names with
\* a segment that is absent on the way
SetContexts ==
  { NoneVal,
    DictVal([k \in {"v", "p", "q"} |->
               IF k = "v" THEN ListVal(<< IntVal("1"), IntVal("2") >>)
               ELSE IF k = "p" THEN DictVal([j \in {"v"} |-> IntVal("7")])
               ELSE Obj]),
    ListVal(<< DictVal([j \in {"v"} |-> IntVal("1")]) >>),
    Obj,
    IntVal("3") }
SetNames ==
  { <<"v">>, <<"0">>, <<"p", ".", "v">>, <<"q", ".", "v">>, <<"q", ".", "p">>, <<"v", ".", "v">>,
    <<"v", ".", "0">>, <<"0", ".", "v">>, <<"v", ".", "1", ".", "v">>, <<"v", ".", "p", ".", "v">>,
    <<"p", ".", "q", ".", "v">>, <<"q", ".", "v", ".", "v">> }
SetValues == { IntVal("5"), DictVal(<<>>) }

SetValueNext ==
  \/ \E n \in SetNames, v \in SetValues, c \in SetContexts : set_value(n, v, c)
  \/ Finish

SetValueSpec == Init /\ [][SetValueNext]_vars

\* functions handed to eval_function with dynamic_args: f(p), g(p, q) and
\* h(), each returning its p or the v of its globals; the wrapper returned is
\* called with no, one or two positional arguments and with keywords among
\* p, q and v
Functions ==
  { DefVal(<<"p">>, <<"p">>, Builtins), DefVal(<<"p", "q">>, <<"p">>, Builtins),
    DefVal(<<>>, <<"v">>, Update([k \in {"v"} |-> IntVal("8")], Builtins)) }
Positionals == { <<>>, << IntVal("1") >>, << IntVal("1"), IntVal("2") >> }
Keywords ==
  { <<>>, [k \in {"p"} |-> IntVal("5")], [k \in {"v"} |-> IntVal("5")],
    [k \in {"p", "q", "v"} |-> IntVal("5")], [k \in {"q", "v"} |-> IntVal("6")] }

WrapperNext ==
  \/ \E f \in Functions, d \in BOOLEAN : EvalFunctionCall(ValueDesc(f), NoSelector, NoneVal, d)
  \/ \E a \in Positionals, k \in Keywords : wrapper(a, k)
  \/ Finish

WrapperSpec == Init /\ [][WrapperNext]_vars

\* Calls of eval, eval_function and register_context.  eval reaches
\* get_value through GetValueTry, with the names of Expressions.
Next ==
  \/ \E c \in RegContexts, n \in RegNames \cup { NoSelector } : register_context(c, n)
  \/ \E m \in RegModules : m.ref \in sys_modules /\ register_context(m, NoSelector)
  \/ \E e \in Expressions, c \in Contexts, s \in BOOLEAN, f \in { NoSelector, "p" }, d \in BOOLEAN :
       eval(e, c, s, f, d)
  \/ GetValueTry
  \/ EvalFinish
  \/ \E fd \in Descriptors, f \in Selectors, c \in Contexts, d \in BOOLEAN :
       EvalFunctionCall(fd, f, c, d)
  \/ Finish

Spec == Init /\ [][Next]_vars

\* Direct calls of get_value, with every name of Names.  get_value reads
\* neither the registry nor the outcome of an earlier eval_function.
ResolverNext ==
  \/ \E n \in Names, pm \in BOOLEAN, s \in BOOLEAN, c \in Contexts, t \in 1..MaxTrys :
       get_value(TextDesc(n), pm, s, c, t)
  \/ GetValueTry
  \/ Finish

\* The loop runs in the caller's thread: a call that is in its loop makes its
\* next attempt.  Iteration is what every GetValueTry step does to the
\* attempt counter, and GetValueTry is defined in every state of the loop.
Iteration == pc = "get_value" /\ attempts' = attempts + 1

ResolverSpec == Init /\ [][ResolverNext]_vars /\ WF_attempts(Iteration)

\* ------------------------------------------------------------------- claims
Done(op) == pc = "done" /\ call.op = op
Splits(t) == IF t = <<>> THEN <<>> ELSE Split(t)

\* no leading prefix of the text can be loaded as a namespace
NoPrefixLoads(t) ==
  \A k \in 1..Len(Split(t)) : ~importer(Join(SubSeq(Split(t), 1, k)), sys_modules, importlib_util).ok

\* some segment of the text is absent from the explicit context of the call
SegmentAbsent == ~Walk(call.context, Splits(call.name.code), 1, TRUE, sys_modules).ok

\* the expression of the call is not a resolvable symbol path
Unresolvable ==
  /\ call.name.form = "text"
  /\ IF call.context = NoneVal THEN NoPrefixLoads(call.name.code) ELSE SegmentAbsent

\* C1: an expression that is no resolvable symbol path but that eval_function
\* turns into a callable makes eval return that callable, with context None
\* and with an explicit context alike.
C1_EvalFallsBackToCallable ==
  (Done("eval") /\ Unresolvable /\ fn.ok /\ callable(fn.val)) => result = Returned(fn.val)

\* C2: when both the path lookup and the function evaluation of eval fail,
\* strict eval raises one ValueError that embeds both failures and non-strict
\* eval returns None; eval never raises anything but that composite error.
C2_FailurePolicy ==
  Done("eval") =>
    /\ (~lookup.ok /\ ~fn.ok) =>
         IF call.strict
         THEN /\ result.status = "raise"
              /\ result.err = "ValueError"
              /\ result.value_error = lookup.err
              /\ result.function_error = fn.err
         ELSE result = Returned(NoneVal)
    /\ result.status = "raise" => result.err = "ValueError"

C2_BothFailedStrict ==
  /\ Done("eval") /\ ~lookup.ok /\ ~fn.ok /\ call.strict
  /\ result.status = "raise" /\ result.value_error = "ImportError" /\ result.function_error = "NameError"

\* C3: against an explicit context, a path with an absent segment makes strict
\* get_value fail with a key/attribute NotFound error and non-strict get_value
\* return None.
C3_ContextMissIsNotFound ==
  (Done("get_value") /\ call.context # NoneVal /\ SegmentAbsent) =>
    IF call.strict
    THEN result.status = "raise" /\ result.err \in { "KeyError", "AttributeError" }
    ELSE result = Returned(NoneVal)

\* C4: with no context, a path none of whose leading prefixes loads makes strict
\* get_value end in a failure; it never returns a value for such a path.
C4_LoadFailureIsReported ==
  (Done("get_value") /\ call.context = NoneVal /\ call.strict /\ NoPrefixLoads(call.name.code))
    => result.status = "raise"

\* the strictness get_value runs with: eval always looks up strictly
LookupStrict == IF call.op = "eval" THEN TRUE ELSE call.strict
Looked == attempts >= 1 /\ call.op \in { "get_value", "eval" }
ExactlyOneNone == (lookup.up.val = NoneVal) # (lookup.down.val = NoneVal)

\* what _get_value returns in the cases the two readings agree on: only one
\* direction succeeded, or both did and non-strict mode got None from one side
C5_AgreedCases ==
  /\ (lookup.up.ok /\ ~lookup.down.ok) => (lookup.ok /\ lookup.val = lookup.up.val)
  /\ (~lookup.up.ok /\ lookup.down.ok) => (lookup.ok /\ lookup.val = lookup.down.val)
  /\ (lookup.up.ok /\ lookup.down.ok /\ ~LookupStrict /\ ExactlyOneNone) =>
       (lookup.ok /\ lookup.val = IF lookup.up.val = NoneVal THEN lookup.down.val ELSE lookup.up.val)
  /\ (lookup.up.ok /\ lookup.down.ok /\ ~(~LookupStrict /\ ExactlyOneNone) /\ call.prefer_modules) =>
       /\ lookup.ok
       /\ lookup.val \in { lookup.up.val, lookup.down.val }
       /\ (inspect_ismodule(lookup.up.val) \/ inspect_ismodule(lookup.down.val))
            => inspect_ismodule(lookup.val)
BothOrdinary ==
  lookup.up.ok /\ lookup.down.ok /\ ~(~LookupStrict /\ ExactlyOneNone) /\ ~call.prefer_modules

InGetValue == call.op \in { "get_value", "eval" }
C6_Bounded ==
  InGetValue =>
    /\ attempts <= call.num_trys
    /\ pc = "get_value" => (attempts < call.num_trys /\ (attempts >= 1 => ~lookup.ok))
    /\ pc # "get_value" => (attempts >= 1 /\ (~lookup.ok => attempts = call.num_trys))
    /\ Done("get_value") => result = ResultOf(lookup)

\* C6: get_value makes at most num_trys attempts, returns the value of the
\* first attempt that succeeds without attempting again, raises the failure
\* of the last attempt when all num_trys attempts fail, and always leaves
\* its loop.
C6_BoundedRetry ==
  /\ []C6_Bounded
  /\ (pc = "get_value") ~> (pc = "done")

C6_SucceedsOnRetry ==
  /\ Done("get_value") /\ call.num_trys = 2 /\ attempts = 2
  /\ lookup.ok /\ result = Returned(lookup.val)

DictOrNone(c) == Falsy(c) \/ c.kind = "dict"
Evaluated ==
  /\ pc = "done" /\ call.op \in { "eval", "eval_function" }
  /\ call.name.form # "value" /\ DictOrNone(call.context)
RecordContext ==
  IF call.name.form = "record" /\ call.name.context # _NoValue THEN call.name.context.scope ELSE <<>>
CallContext == IF Falsy(call.context) THEN <<>> ELSE call.context.scope

\* C7: the dictionary a text is evaluated in is the registry, updated by the
\* record's context, updated by the context argument of the call: every key
\* of these has there the value of the last source that holds it.
C7_CallContextWins ==
  Evaluated =>
    LET claimed == Update(Update(CONTEXT_REGISTRY, RecordContext), CallContext)
    IN \A k \in DOMAIN claimed : k \in DOMAIN fn.merged /\ fn.merged[k] = claimed[k]

BlockOf(d) == ParseBlock(d.code).defs
\* C8: a record holding a code block with its own selector, evaluated with a
\* selector argument that names another function of the block, yields the
\* function the argument names.
C8_ArgumentSelectorWins ==
  ( /\ Done("eval_function") /\ DictOrNone(call.context)
    /\ call.name.form = "record" /\ fn.branch = "block"
    /\ call.name.foi # NoSelector /\ call.function_of_interest # NoSelector
    /\ call.name.foi # call.function_of_interest
    /\ { call.name.foi, call.function_of_interest } \subseteq DOMAIN BlockOf(call.name) )
  => (fn.ok /\ fn.val.ref = BlockOf(call.name)[call.function_of_interest])

AsExpression == PyEval(call.name.code, fn.merged, sys_modules)
NoSelectorGiven == call.function_of_interest = NoSelector /\ call.name.foi = NoSelector

C10_BlockSeesMergedContext ==
  ( /\ Done("eval_function") /\ fn.branch = "block" /\ fn.ok
    /\ HasName(fn.merged, <<fn.val.ref[1]>>)
    /\ fn.val.ref[1] \notin DOMAIN BlockOf(call.name) )
  => /\ CallFunction(fn.val, sys_modules).ok
     /\ CallFunction(fn.val, sys_modules) = EvalName(fn.val.ref, fn.merged, sys_modules)

\* the name a recorded registration assigns: the one given, or the
\* context's own
RegisteredName(c) ==
  IF c.name = NameOf(NoSelector) THEN DunderName(c.context) ELSE c.name.code[1]
RegistrationReturned(c, r) == c.op = "register_context" /\ r.status = "return"

\* C11 as stated: the registry is write-once per name and never shrinks; an
\* entry, once there, stays and keeps the context of its first registration.
C11_WriteOnce ==
  [][ \A n \in DOMAIN CONTEXT_REGISTRY :
        n \in DOMAIN CONTEXT_REGISTRY' /\ CONTEXT_REGISTRY'[n] = CONTEXT_REGISTRY[n] ]_vars

C11_Latest ==
  ( pc = "done" /\ RegistrationReturned(call, result) ) =>
    /\ RegisteredName(call) \in DOMAIN CONTEXT_REGISTRY
    /\ CONTEXT_REGISTRY[RegisteredName(call)] = call.context
C11_Kept ==
  \A n \in DOMAIN CONTEXT_REGISTRY :
    /\ n \in DOMAIN CONTEXT_REGISTRY'
    /\ CONTEXT_REGISTRY'[n] # CONTEXT_REGISTRY[n] =>
         ( pc' = "done" /\ RegistrationReturned(call', result') /\ RegisteredName(call') = n )

\* C11 as amended: the registry never shrinks and a name maps to the
\* context of the latest registration under it; a registration that returns
\* leaves its context under its name, and an entry changes only by a
\* registration under the same name.
C11_LatestRegistrationWins == []C11_Latest /\ [][C11_Kept]_vars

\* a registration under "v" has returned while the module registered earlier
\* under its own name is still there
C11_RegisteredBesideEarlier ==
  /\ Done("register_context") /\ result.status = "return"
  /\ RegisteredName(call) = "v" /\ call.context = DictVal([k \in {"v"} |-> IntVal("2")])
  /\ "p" \in DOMAIN CONTEXT_REGISTRY /\ CONTEXT_REGISTRY["v"] = call.context

\* the root of the path of the call is a registered name
Root(c) == Split(c.name.code)[1][1]
RootedAtRegistered(c) ==
  /\ c.name.form = "text" /\ IsDotted(c.name.code)
  /\ Root(c) \in DOMAIN CONTEXT_REGISTRY

\* the same path resolved with the registered context passed explicitly as
\* the value of its name
ExplicitResolution(c) ==
  _get_value(c.name, c.prefer_modules, TRUE,
             DictVal([k \in {Root(c)} |-> CONTEXT_REGISTRY[Root(c)]]), sys_modules, importlib_util)

\* C12: a path rooted at a registered name, resolved with no context
\* argument, returns the value that resolving it with the registered context
\* passed explicitly returns.
C12_RegistryDefaultEqualsExplicit ==
  ( /\ pc = "done" /\ InGetValue /\ call.context = NoneVal
    /\ RootedAtRegistered(call) /\ ExplicitResolution(call).ok )
  => ( result.status = "return" /\ result.val = ExplicitResolution(call).val )

\* the class i and its ancestors, and whether all of them are decorated
RECURSIVE Chain(_, _)
Chain(T, i) == IF i = 0 THEN {} ELSE {i} \cup Chain(T, T[i].base)
Augmented(T, i) == \A j \in Chain(T, i) : T[j].statement.fields # "none"

\* the most derived class of the chain of i whose statement declares n (0: none)
RECURSIVE Declaring(_, _, _)
Declaring(T, i, n) ==
  IF i = 0 THEN 0 ELSE IF n \in DOMAIN T[i].statement.decl THEN i ELSE Declaring(T, T[i].base, n)
ChainNames(T, i) == UNION { DOMAIN T[j].statement.decl : j \in Chain(T, i) }

\* the default the statement of the class d declares for n
DeclaredDefault(T, d, n) ==
  FieldValue(change_context(T[d].statement.decl[n], GlobalsRef), module_globals, sys_modules).val

\* an instance built with no keyword arguments
BuiltPlain(o) == o.ok /\ o.kwargs = <<>>

\* C13: along every chain of decorated classes the decoration of each class
\* succeeds, and an instance of the most derived class built without
\* overrides has every field declared in the chain, each with the default
\* declared by the most derived class of the chain that declares it.
C13_MostDerivedDefault ==
  /\ \A i \in DOMAIN types : Augmented(types, i) => types[i].ok
  /\ \A k \in DOMAIN objects :
       ( BuiltPlain(objects[k]) /\ Augmented(types, objects[k].cls) ) =>
         \A n \in ChainNames(types, objects[k].cls) :
           /\ n \in DOMAIN objects[k].attrs
           /\ objects[k].attrs[n] = DeclaredDefault(types, Declaring(types, objects[k].cls, n), n)

\* the table of the class of an instance, and what its constructor was given
TableOf(o) == FieldsOf(types, o.cls).table
Given(o) == KwDict(o.kwargs)
Before(o, j, what) == \E b \in 1..(j - 1) : o.log[b].what = what
Later(o, j, what) == \E a \in (j + 1)..Len(o.log) : o.log[a].what = what

\* the value an override stands for: that of the descriptor when the
\* keyword was given a field descriptor, the keyword's value otherwise
Overriding(v) == IF v.kind = "field" THEN FieldValue(v, module_globals, sys_modules).val ELSE v

TextForEvalField(o, k) ==
  /\ o.kwargs[k].name \in DOMAIN TableOf(o)
  /\ o.kwargs[k].value.kind = "str"
  /\ Declaring(types, o.cls, o.kwargs[k].name) # 0
  /\ types[Declaring(types, o.cls, o.kwargs[k].name)].statement.decl[o.kwargs[k].name].eval
  /\ ~types[Declaring(types, o.cls, o.kwargs[k].name)].statement.decl[o.kwargs[k].name].is_class

\* what declaring the field with the default p would assign
AsDeclared(p) == FieldValue(change_context(field(p, TRUE), GlobalsRef), module_globals, sys_modules)

\* C15 as stated: a symbol path given as the keyword override of a field
\* declared with eval enabled yields the field value that declaring the field
\* with that path as its default yields.
C15_OverrideResolvedLikeDefault ==
  \A i \in DOMAIN objects : \A k \in DOMAIN objects[i].kwargs :
    ( objects[i].ok /\ TextForEvalField(objects[i], k) /\ AsDeclared(objects[i].kwargs[k].value).ok ) =>
      objects[i].attrs[objects[i].kwargs[k].name] = AsDeclared(objects[i].kwargs[k].value).val

\* C15 as amended: a keyword override that is not a field descriptor is the
\* actual value of the field and is stored as given, a symbol path included;
\* only an override given as a field descriptor goes through the Path
\* Resolver, and the field holds the descriptor's value.
C15_OverrideStoredAsGiven ==
  \A i \in DOMAIN objects : \A k \in DOMAIN objects[i].kwargs :
    ( /\ objects[i].ok /\ types[objects[i].cls].has_fields
      /\ objects[i].kwargs[k].name \in DOMAIN TableOf(objects[i])
      /\ TableOf(objects[i])[objects[i].kwargs[k].name].annotation.kind = "type" ) =>
      objects[i].attrs[objects[i].kwargs[k].name] =
        IF objects[i].kwargs[k].value.kind = "field"
        THEN FieldValue(objects[i].kwargs[k].value, module_globals, sys_modules).val
        ELSE objects[i].kwargs[k].value

\* an instance whose field e is declared with eval enabled was built with the
\* path "q.p" for e: e is the text, and the path resolves to 7
C15_PathOverrideKept ==
  \E i \in DOMAIN objects :
    /\ objects[i].ok /\ Len(objects[i].kwargs) = 1 /\ TextForEvalField(objects[i], 1)
    /\ objects[i].attrs[<<"e">>] = StrVal(<<"q", ".", "p">>)
    /\ AsDeclared(StrVal(<<"q", ".", "p">>)).val = IntVal("7")

\* the layers a constructor enters, outermost first, when none of them fails
RECURSIVE Entered(_, _)
Entered(T, layers) ==
  IF layers = <<>> THEN <<>>
  ELSE IF Head(layers).layer = "object" THEN << Head(layers) >>
  ELSE IF Head(layers).layer = "body"
  THEN << Head(layers) >> \o ( IF T[Head(layers).owner].statement.body = "chain"
                               THEN Entered(T, InitOf(T, T[Head(layers).owner].base))
                               ELSE <<>> )
  ELSE << Head(layers) >> \o Entered(T, Tail(layers))
EnteredBy(o) == Entered(types, InitOf(types, o.cls))
StrictChecks(o) == { j \in DOMAIN EnteredBy(o) : EnteredBy(o)[j].layer = "_FIELDS" }
FirstCheck(o) == CHOOSE j \in StrictChecks(o) : \A m \in StrictChecks(o) : j <= m

\* the class of the instance has a strictly decorated ancestor and no marker
\* of its own
UnmarkedUnderStrict(o) ==
  /\ ~types[o.cls].has_fields
  /\ \E s \in Chain(types, o.cls) : types[s].statement.fields = "strict"

\* C16 as stated: a subtype of a strictly decorated type that carries no
\* marker of its own is defined, and every instantiation of it fails with the
\* strictness error before any field is assigned and any constructor body runs.
C16_EveryInstantiationRefused ==
  /\ \A i \in DOMAIN types : types[i].statement.fields = "none" => types[i].ok
  /\ \A k \in DOMAIN objects :
       UnmarkedUnderStrict(objects[k]) =>
         /\ ~objects[k].ok /\ objects[k].err = "AttributeError"
         /\ objects[k].attrs = <<>>
         /\ \A j \in DOMAIN objects[k].log : objects[k].log[j].what = "strict"

\* C16 as amended: the subtype is defined, and every instantiation of it
\* that reaches the constructor of the strict type fails there with the
\* strictness error; the check reads the namespace of the runtime type and
\* comes before the strict type's previous constructor, so nothing runs
\* after it: only the layers outside the strict type's constructor have
\* assigned fields or run a body.
C16_StrictConstructorRefuses ==
  /\ \A i \in DOMAIN types : types[i].statement.fields = "none" => types[i].ok
  /\ \A k \in DOMAIN objects :
       ( ~types[objects[k].cls].has_fields /\ StrictChecks(objects[k]) # {} ) =>
         /\ ~objects[k].ok /\ objects[k].err = "AttributeError"
         /\ objects[k].log # <<>>
         /\ objects[k].log[Len(objects[k].log)].what = "strict"
         /\ objects[k].log[Len(objects[k].log)].owner = EnteredBy(objects[k])[FirstCheck(objects[k])].owner
         /\ \A j \in 1..(Len(objects[k].log) - 1) :
              \E m \in 1..(FirstCheck(objects[k]) - 1) :
                /\ EnteredBy(objects[k])[m].owner = objects[k].log[j].owner
                /\ EnteredBy(objects[k])[m].layer \in { "fields", "body" }

\* an instance of a subtype of a strict type that defines no constructor and
\* carries no marker was refused by the strict type's constructor, with
\* nothing assigned
C16_RefusedAtFirstUse ==
  \E k \in DOMAIN objects :
    /\ UnmarkedUnderStrict(objects[k]) /\ StrictChecks(objects[k]) # {}
    /\ types[objects[k].cls].statement.body = "none"
    /\ ~objects[k].ok /\ objects[k].err = "AttributeError" /\ objects[k].attrs = <<>>
    /\ Len(objects[k].log) = 1 /\ objects[k].log[1].what = "strict"

\* the constructor arguments the statement of the class i declares for the
\* composite n, and the class the name t stands for in the defining module
DeclaredArguments(T, i, n) == T[i].statement.decl[n].constructor_arguments.scope
SourceType(t) == FieldValue(change_context(field(t, TRUE), GlobalsRef), module_globals, sys_modules).val
Composites(T, i) == { n \in DOMAIN T[i].statement.decl : T[i].statement.decl[n].is_class }

\* the composite n of the instance o comes from the class d; what the call
\* supplied for it
DeclaredFor(o, n) == TableOf(o)[n].default.kind = "object" /\ TableOf(o)[n].annotation.kind = "field"
SuppliedName(o, n) == IF n \in DOMAIN Given(o) THEN Given(o)[n] ELSE _NoValue
SuppliedArguments(o, n) ==
  IF Suffixed(n, _DY_CONSTRUCTOR_ARGS_SUFFIX) \in DOMAIN Given(o)
     /\ Given(o)[Suffixed(n, _DY_CONSTRUCTOR_ARGS_SUFFIX)].kind = "dict"
  THEN Given(o)[Suffixed(n, _DY_CONSTRUCTOR_ARGS_SUFFIX)].scope
  ELSE <<>>

\* C17: construction leaves the declared constructor arguments of every
\* composite as the class statement gave them, and an instance built
\* without overrides has the composite built from them and reads them as its
\* x_args, whatever was constructed before.
C17_DeclaredArgumentsKept ==
  /\ \A i \in DOMAIN types : \A n \in Composites(types, i) :
       types[i].ok => types[i].cells[n] = DeclaredArguments(types, i, n)
  /\ \A k \in DOMAIN objects : \A n \in DOMAIN objects[k].attrs :
       ( BuiltPlain(objects[k]) /\ n \in DOMAIN TableOf(objects[k]) /\ DeclaredFor(objects[k], n) ) =>
         /\ objects[k].attrs[n].scope = DeclaredArguments(types, TableOf(objects[k])[n].owner, n)
         /\ Deref(types, objects[k].attrs[Suffixed(n, _DY_CONSTRUCTOR_ARGS_SUFFIX)])
              = DeclaredArguments(types, TableOf(objects[k])[n].owner, n)

\* C18: a composite given its declared source name is rebuilt from the
\* declared constructor arguments with the supplied ones merged over them; a
\* composite given another source name is built from that name with the
\* supplied arguments only.
C18_MergeOrRebuild ==
  \A k \in DOMAIN objects : \A n \in DOMAIN objects[k].attrs :
    ( /\ objects[k].ok /\ n \in DOMAIN TableOf(objects[k]) /\ DeclaredFor(objects[k], n)
      /\ SuppliedName(objects[k], n).kind = "str" ) =>
      objects[k].attrs[n] =
        IF SuppliedName(objects[k], n) = TableOf(objects[k])[n].annotation._value
        THEN Instance(SourceType(SuppliedName(objects[k], n)),
                      Update(DeclaredArguments(types, TableOf(objects[k])[n].owner, n),
                             SuppliedArguments(objects[k], n)))
        ELSE Instance(SourceType(SuppliedName(objects[k], n)), SuppliedArguments(objects[k], n))

\* C19: an instance built from the x_type and x_args read from an earlier
\* instance has its x built from the same class with the same arguments as
\* the earlier instance's x.
C19_RoundTrip ==
  \A k \in DOMAIN objects : \A r \in DOMAIN objects :
    ( /\ k < r /\ objects[k].ok /\ objects[r].cls = objects[k].cls
      /\ X_type \in DOMAIN objects[k].attrs
      /\ objects[r].kwargs = RoundTrip(objects[k]) ) =>
      /\ objects[r].ok
      /\ objects[r].attrs[X] = objects[k].attrs[X]

\* the constructor keywords of the instance o that stand for the method m
KeywordsFor(o, m) == { k \in DOMAIN o.kwargs : KeyName(types, o.cls, o.kwargs[k].name) = m }
LastKeywordFor(o, m) == CHOOSE k \in KeywordsFor(o, m) : \A j \in KeywordsFor(o, m) : j <= k

\* the function a replacement given to the constructor stands for
Replacement(r) ==
  eval_function(NameGiven(r), NoSelector, DictVal(module_globals), FALSE, CONTEXT_REGISTRY, sys_modules).val

C20_BoundOnInstance ==
  /\ \A i \in DOMAIN types :
       types[i].defs = [m \in DOMAIN types[i].statement.methods |->
                          TaggedMethod(i, m, types[i].statement.methods[m])]
  /\ \A k \in DOMAIN objects : \A m \in types[objects[k].cls].dynamic_methods :
       ( objects[k].ok /\ types[objects[k].cls].has_methods /\ m \notin objects[k].implemented ) =>
         IF KeywordsFor(objects[k], m) = {}
         THEN m \notin DOMAIN objects[k].attrs
         ELSE /\ m \in DOMAIN objects[k].attrs
              /\ objects[k].attrs[m] =
                   Bound(Replacement(objects[k].kwargs[LastKeywordFor(objects[k], m)].value))
              /\ \A j \in DOMAIN objects[k].log :
                   objects[k].log[j].what = "body" =>
                     /\ m \in DOMAIN objects[k].log[j].attrs
                     /\ objects[k].log[j].attrs[m] = objects[k].attrs[m]
C20_OthersKept ==
  /\ \A k \in DOMAIN objects : k \in DOMAIN objects'
  /\ \A k \in DOMAIN objects : \A j \in DOMAIN objects :
       ( objects'[k] # objects[k] /\ j # k ) => objects'[j] = objects[j]
  /\ Len(objects') > Len(objects) => \A k \in DOMAIN objects : objects'[k] = objects[k]
  /\ \A i \in DOMAIN types : types'[i].defs = types[i].defs

\* C20: a replacement given to the constructor is bound on the new
\* instance and is in effect when the original constructor body starts; an
\* instance built without a replacement has no binding of its own and uses
\* the method of its type; the functions of the types stay as defined, and a
\* construction or an implement_methods call changes no other instance.
C20_MethodOverridePerInstance == []C20_BoundOnInstance /\ [][C20_OthersKept]_vars

\* after an instance without a replacement, an instance of the same class was
\* built with a replacement for m that its constructor body found in place;
\* the first still has no binding of its own
C20_OverrideBesidePlain ==
  \E k \in DOMAIN objects : \E r \in DOMAIN objects :
    /\ k < r /\ objects[k].cls = objects[r].cls /\ objects[k].ok /\ objects[r].ok
    /\ objects[k].kwargs = <<>> /\ M \notin DOMAIN objects[k].attrs
    /\ KeywordsFor(objects[r], M) # {} /\ M \in DOMAIN objects[r].attrs
    /\ objects[r].attrs[M].kind = "method"
    /\ \E j \in DOMAIN objects[r].log :
         objects[r].log[j].what = "body" /\ M \in DOMAIN objects[r].log[j].attrs

\* the keyword name stands for a replacement of a method of the class c:
\* the prefix followed by the name of a replaceable method, or the bare name
\* of a replaceable method that is blended
OverrideKeyword(c, name) ==
  \E m \in MethodsOf(types, c).dynamic :
    \/ name = Prefixed(m)
    \/ name = m /\ m \in MethodsOf(types, c).blended
Forwarded(o) == SelectSeq(o.kwargs, LAMBDA a : ~OverrideKeyword(o.cls, a.name))
BodyEvents(o) == { j \in DOMAIN o.log : o.log[j].what = "body" }

\* C21: of the keywords given to the constructor of a class with replaceable
\* methods, the prefixed name of a replaceable method and the bare name of a
\* blended one are bound as replacements and are not handed on; every other
\* keyword, the bare name of a method that is not blended included, reaches
\* the original constructor unchanged and in order
C21_BlendedAndPrefixedKeywords ==
  \A k \in DOMAIN objects :
    LET o == objects[k]
    IN types[o.cls].has_methods =>
         /\ \A j \in BodyEvents(o) :
              /\ o.log[j].kwargs = Forwarded(o)
              /\ \A a \in DOMAIN o.kwargs :
                   OverrideKeyword(o.cls, o.kwargs[a].name) =>
                     \E m \in MethodsOf(types, o.cls).dynamic :
                       /\ o.kwargs[a].name \in { m, Prefixed(m) }
                       /\ m \in DOMAIN o.log[j].attrs /\ o.log[j].attrs[m].kind = "method"
         /\ ( o.ok /\ BodyEvents(o) = {} ) => Forwarded(o) = <<>>

\* an instance of a class whose method m is not blended was built with the
\* bare keyword m: its constructor body received m and nothing was bound;
\* another instance was built with the prefixed keyword, which was bound and
\* not handed on
C21_BareKeywordForwarded ==
  \E k \in DOMAIN objects : \E r \in DOMAIN objects :
    /\ objects[k].ok /\ types[objects[k].cls].has_methods
    /\ M \in types[objects[k].cls].dynamic_methods
    /\ M \notin types[objects[k].cls].blended_dynamic_methods
    /\ \E a \in DOMAIN objects[k].kwargs : objects[k].kwargs[a].name = M
    /\ \E j \in BodyEvents(objects[k]) : objects[k].log[j].kwargs = objects[k].kwargs
    /\ M \notin DOMAIN objects[k].attrs
    /\ objects[r].ok /\ types[objects[r].cls].has_methods
    /\ \E a \in DOMAIN objects[r].kwargs : objects[r].kwargs[a].name = Prefixed(M)
    /\ \E j \in BodyEvents(objects[r]) : objects[r].log[j].kwargs = <<>>
    /\ M \in DOMAIN objects[r].attrs

SignatureBefore(i) ==
  IF types[i].statement.body = "none" THEN SignatureOf(types, types[i].base)
  ELSE types[i].statement.signature

\* C23: the constructor signature of a class decorated for methods has, for
\* each replaceable method, a keyword-only parameter with a default; and no
\* class is decorated whose blended method has the name of a parameter its
\* constructor had before
C23_ExtendedAndCollisionsRejected ==
  \A i \in DOMAIN types :
    ( types[i].ok /\ types[i].has_methods ) =>
      /\ \A m \in types[i].dynamic_methods :
           \E p \in types[i].signature :
             /\ p.name \in { m, Prefixed(m) }
             /\ p.kind = "keyword" /\ p.default # _NoValue
      /\ \A m \in types[i].blended_dynamic_methods :
           \A p \in SignatureBefore(i) : p.name # m

\* C24: every class decorated for fields, a subclass that declares an
\* inherited field again with another default included, is decorated
\* successfully; the keyword-only parameters of its constructor signature are
\* one per field of its table, with the default and the annotation of the
\* table, and the signature has no *args or **kwargs parameter
C24_SignatureOfFields ==
  \A i \in DOMAIN types :
    types[i].statement.fields # "none" =>
      /\ types[i].ok
      /\ { p \in types[i].signature : p.kind = "keyword" } =
           { FieldParam(n, types[i].table[n]) : n \in DOMAIN types[i].table }
      /\ \A p \in types[i].signature : p.kind \notin VarKinds

\* the value the segments lead to from var, read without writing
RECURSIVE Traverse(_, _, _, _, _)
Traverse(var, splits, i, sm, modules) ==
  IF i > Len(splits) THEN [ok |-> TRUE, var |-> var]
  ELSE IF var.kind = "dict"
  THEN IF ~HasName(var.scope, splits[i]) THEN [ok |-> FALSE, var |-> var]
       ELSE Traverse(var.scope[splits[i][1]], splits, i + 1, sm, modules)
  ELSE IF var.kind = "list"
  THEN IF ~IsIndex(splits[i]) \/ Place(splits[i]) > Len(var.scope) THEN [ok |-> FALSE, var |-> var]
       ELSE Traverse(var.scope[Place(splits[i])], splits, i + 1, sm, modules)
  ELSE IF ~HasName(AttrsIn(var, sm, modules), splits[i]) THEN [ok |-> FALSE, var |-> var]
       ELSE Traverse(AttrsIn(var, sm, modules)[splits[i][1]], splits, i + 1, sm, modules)

\* var with the value the segments lead to replaced by sub
RECURSIVE Graft(_, _, _, _)
Graft(var, splits, i, sub) ==
  IF i > Len(splits) THEN sub
  ELSE IF var.kind = "list"
  THEN [var EXCEPT !.scope[Place(splits[i])] = Graft(@, splits, i + 1, sub)]
  ELSE [var EXCEPT !.scope[splits[i][1]] = Graft(@, splits, i + 1, sub)]

\* the parent after a key, index or member assignment of the last segment
Assigned(parent, seg, value) ==
  IF parent.kind = "list" THEN [parent EXCEPT !.scope[Place(seg)] = value]
  ELSE [parent EXCEPT !.scope = Update(@, [k \in {Key(seg)} |-> value])]
Assignable(parent, seg) ==
  \/ parent.kind \in { "dict", "object", "module" }
  \/ parent.kind = "list" /\ IsIndex(seg) /\ Place(seg) <= Len(parent.scope)

C25_Assigned ==
  ( pc = "idle" /\ call'.op = "set_value" ) =>
    LET context == call'.context
        g == IF context = NoneVal
             THEN greedy_import_context(call'.name.code, TRUE, 1, sys_modules, importlib_util)
             ELSE [bound |-> TRUE, module |-> context, name |-> call'.name.code, sm |-> sys_modules]
        checked(splits, last) ==
          LET parent == Traverse(g.module, splits, 1, g.sm, heap.modules)
              after == Traverse(IF context = NoneVal THEN g.module ELSE heap'.context, splits, 1,
                                g.sm, heap'.modules)
          IN ( parent.ok /\ Assignable(parent.var, last) ) =>
               /\ result'.status = "return"
               /\ IF parent.var.kind = "module"
                  THEN heap'.modules = SetModuleAttr(heap.modules, parent.var, Key(last), call'.value)
                  ELSE after.ok /\ after.var = Assigned(parent.var, last, call'.value)
               /\ context # NoneVal =>
                    /\ heap'.modules = heap.modules
                    /\ heap'.context = Graft(context, splits, 1, Assigned(parent.var, last, call'.value))
    IN g.bound =>
         checked(SubSeq(Split(g.name), 1, Len(Split(g.name)) - 1), Split(g.name)[Len(Split(g.name))])

\* C25: set_value finds the parent of the last segment and assigns the last
\* segment in it: as a key when the parent is a dict, as an index when it is
\* a list, as an attribute otherwise; nothing else of the context changes
C25_AssignmentKind == [][C25_Assigned]_vars

\* C26: when the lookup of the expression gave a value, eval returns that
\* value, wrapped by dynamic_args_wrapper when it is callable and
\* dynamic_args is set, whatever eval_function made of the same expression
C26_ValueLookupWins ==
  ( Done("eval") /\ lookup.ok ) =>
    result = Returned(IF callable(lookup.val) /\ call.dynamic_args
                      THEN dynamic_args_wrapper(lookup.val).val
                      ELSE lookup.val)

\* the lookup and eval_function both gave a value for the expression, and
\* not the same one: eval returned the value of the lookup
C26_TieGoesToLookup ==
  /\ Done("eval") /\ lookup.ok /\ fn.ok /\ fn.val # lookup.val
  /\ result.status = "return" /\ result.val = lookup.val

\* the keywords of the call whose names the function declares
Declared(function, kwargs) ==
  LET names == { x \in DOMAIN kwargs : \E i \in DOMAIN Parameters(function) : Parameters(function)[i] = x }
  IN Update(<<>>, [x \in names |-> kwargs[x]])

\* C27: a call of the wrapper made by dynamic_args calls the wrapped function
\* exactly once, with the positional arguments as given and with those
\* keywords whose names the function declares; the other keywords are left
\* out and raise nothing: the call ends as the function's call ends
C27_WrapperFiltersKeywords ==
  Done("wrapper") =>
    /\ Len(invoked) = 1
    /\ invoked[1].function = [call.value EXCEPT !.kind = "function"]
    /\ invoked[1].args = call.args
    /\ invoked[1].kwargs = Declared(call.value, call.kwargs)
    /\ result = ResultOf(Call(invoked[1].function, call.args, Declared(call.value, call.kwargs),
                              sys_modules))

\* g(p, q) was called through its wrapper with one positional argument and
\* the keywords q and v: g got the argument and q, v was left out, and the
\* call returned
C27_UndeclaredDropped ==
  /\ Done("wrapper") /\ result.status = "return"
  /\ Len(call.args) = 1 /\ DOMAIN call.kwargs = { "q", "v" }
  /\ Len(invoked) = 1 /\ DOMAIN invoked[1].kwargs = { "q" }

C28_ContextKept ==
  ( Done("eval_function") /\ call.context.kind = "dict" ) => fn.context = call.context
C28_WrittenOutside ==
  /\ module_globals' = module_globals
  /\ CONTEXT_REGISTRY' # CONTEXT_REGISTRY => call'.op = "register_context"

\* C28: eval_function leaves the context dictionary of its caller with the
\* keys and values it had; the namespace of the defining module, which the
\* constructor passes as context, stays as it was, and the registry changes
\* only in register_context
C28_EvaluationKeepsInputs == []C28_ContextKept /\ [][C28_WrittenOutside]_vars

\* the prefix lengths in the order of the direction: 1, ..., n upwards and
\* n, ..., 1 downwards
PrefixOrder(n, upwards) == [i \in 1..n |-> IF upwards THEN i ELSE n + 1 - i]
Prefix(segs, k) == Join(SubSeq(segs, 1, k))
Loads(segs, k) == importer(Prefix(segs, k), sys_modules, importlib_util).ok

\* the unit and the rest of the name that the search of one direction gives
\* when it stops at the first prefix of its order that loads
FirstLoaded(segs, upwards) ==
  LET order == PrefixOrder(Len(segs), upwards)
      first == order[CHOOSE i \in DOMAIN order :
                       /\ Loads(segs, order[i])
                       /\ \A j \in 1..(i - 1) : ~Loads(segs, order[j])]
  IN [module |-> ModuleVal(Prefix(segs, first)),
      name |-> Join(SubSeq(segs, first + 1, Len(segs)))]

C29_FirstLoadedPrefix ==
  ( pc = "get_value" /\ call.context = NoneVal /\ call.name.form = "text" ) =>
    \A upwards \in BOOLEAN :
      LET segs == Split(call.name.code)
          g == greedy_import_context(call.name.code, upwards, 0, sys_modules, importlib_util)
          found == IF upwards THEN lookup'.up ELSE lookup'.down
      IN (\E k \in 1..Len(segs) : Loads(segs, k)) =>
           /\ g.module = FirstLoaded(segs, upwards).module
           /\ g.name = FirstLoaded(segs, upwards).name
           /\ FirstLoaded(segs, upwards).name = <<>> =>
                found.ok /\ found.val = FirstLoaded(segs, upwards).module

\* C29: without a context, each direction of a lookup tries the prefixes of
\* the name in its order, shortest first upwards and longest first
\* downwards, stops at the first that loads, and goes on from the module of
\* that prefix with the segments after it; a name that is all prefix gives
\* that module itself
C29_PrefixSearchOrder == [][C29_FirstLoadedPrefix]_vars


====
